---- MODULE Spec2Model ----
(***************************************************************************)
(* The poll / collect / upload loop of the profiling agent                 *)
(* (ts/src/profiler.ts, ts/src/index.ts).                                  *)
(*                                                                         *)
(* Every await of the code is a place where an invocation of               *)
(* pollProfilerService is suspended; an action is the code that runs from  *)
(* the event that resumes it (a response, a timer, a sampler result, a     *)
(* setImmediate callback) to the next await.  Time is discrete: Tick       *)
(* advances every running timer by one millisecond-unit.                   *)
(***************************************************************************)
EXTENDS Integers, Sequences, FiniteSets, TLC

\* ------------------------------------------------------------------ bounds
\* Slots for invocations of pollProfilerService that are live at once.
MaxInvocations == 2
\* POLL failures in a row before the control plane answers 2xx.
MaxFails == 2
\* backoffMillis, minProfilingIntervalMillis and a server-supplied backoff
\* range over 1..MaxMillis.
MaxMillis == 2
\* Timers saturate at TimeCap (TimeCap >= MaxMillis).
TimeCap == 3
\* CPU sampling sessions the timer-driven agent starts.
MaxRuns == 2
\* Uncaught exceptions the process handles.
MaxExceptions == 2

\* --------------------------------------------------------------- constants
Undefined == "undefined"
\* No previous event to measure a gap from.
NoGap == 0 - 1

\* enum ProfileTypes
Wall == "WALL"
Heap == "HEAP"

\* profileType values a control plane may send (CPU is not known to the agent).
RequestTypes == {Wall, Heap, "CPU", Undefined}
Names == {"projects/p/profiles/a", "projects/p/profiles/b"}
Durations == {"10s", "30s"}

\* RequestProfile.labels: absent, or an instance and a zone.
NoLabels == [instance |-> Undefined, zone |-> Undefined]
TestLabels == [instance |-> "test-instance", zone |-> "test-zone"]

NoProf == [name |-> Undefined, profileType |-> Undefined, duration |-> Undefined,
           profileBytes |-> Undefined, labels |-> NoLabels]

\* interface RequestProfile: the body of a 2xx POLL response. The first
\* profile carries labels, the second none.
Bodies ==
  [name : {"projects/p/profiles/a"}, profileType : RequestTypes,
   duration : Durations, profileBytes : {Undefined}, labels : {TestLabels}]
  \cup
  [name : {"projects/p/profiles/b"}, profileType : RequestTypes,
   duration : Durations, profileBytes : {Undefined}, labels : {NoLabels}]

\* HTTP status codes on both sides of the 2xx boundaries, and a 5xx.
OkCodes == {200, 204, 299}
ErrorCodes == {199, 300, 404, 503}
StatusCodes == OkCodes \cup ErrorCodes

\* The outcomes of this.request() for the POST: it resolves with
\* [body, response] or throws err. statusCode is response.statusCode, or
\* err.statusCode with 0 for an error that has none. backoff is a
\* server-supplied backoff, 0 for none. An error response carries no
\* profile, or (a misbehaving server) a well-formed one.
Responses ==
  [threw : {FALSE}, statusCode : OkCodes, backoff : {0}, body : Bodies]
  \cup
  [threw : {FALSE}, statusCode : ErrorCodes, backoff : 0..MaxMillis,
   body : {NoProf, [name |-> "projects/p/profiles/a", profileType |-> Wall,
                    duration |-> "10s", profileBytes |-> Undefined,
                    labels |-> TestLabels]}]
  \cup
  [threw : {TRUE}, statusCode : {0, 503}, backoff : 0..MaxMillis, body : {NoProf}]

\* The configurations start() may be called with, after the merge of
\* initConfig.
Configs ==
  [service : {Undefined, "svc"}, projectId : {Undefined, "proj"},
   disableTime : BOOLEAN, disableHeap : BOOLEAN,
   backoffMillis : 1..MaxMillis, minProfilingIntervalMillis : 1..MaxMillis]

Slots == 1..MaxInvocations

\* const API: the base URL of the control plane.
API == "https://cloudprofiler.googleapis.com/v2"

Min(a, b) == IF a < b THEN a ELSE b

\* ============================================================ serializer
\* The conversion of a v8 profile tree into a profile.proto message:
\* serializeTimeProfile / serializeHeapProfile (ts/src/profilers/
\* profile-serializer.ts) and the native Profile (bindings/serialize.cc).
\* Both intern strings, functions and locations in tables; a table and its
\* lookup map are kept in one record, under the names of the TypeScript
\* code, for both implementations. Positions are 0-based in the code and
\* 1-based in sequences: the string with index x is strings[x + 1], the
\* function with id x is functions[x].

\* Non-root nodes of an input tree.
MaxNodes == 3
\* Calls of addSampleType / addSample on one native Profile.
MaxCalls == 3
\* Non-root nodes of a tree whose root carries samples of its own.
MaxRootedNodes == 2

\* `${n}` for a number n >= 0.
RECURSIVE NumStr(_)
NumStr(n) ==
  LET digit == <<"0", "1", "2", "3", "4", "5", "6", "7", "8", "9">> IN
  IF n < 10 THEN digit[n + 1] ELSE NumStr(n \div 10) \o digit[(n % 10) + 1]

NoAllocations == <<>>
\* The frames a node may stand for, with the samples taken in it: the
\* same function at two lines and at two columns, a function of the same
\* name in another script, and an anonymous function of an unnamed script.
NodeKinds ==
  { [name |-> "f", scriptName |-> "a.js", scriptId |-> 1, lineNumber |-> 5,
     columnNumber |-> 2, hitCount |-> 1,
     allocations |-> <<[count |-> 1, sizeBytes |-> 8]>>],
    [name |-> "f", scriptName |-> "a.js", scriptId |-> 1, lineNumber |-> 7,
     columnNumber |-> 2, hitCount |-> 0, allocations |-> NoAllocations],
    [name |-> "f", scriptName |-> "a.js", scriptId |-> 1, lineNumber |-> 5,
     columnNumber |-> 3, hitCount |-> 1,
     allocations |-> <<[count |-> 2, sizeBytes |-> 4]>>],
    [name |-> "f", scriptName |-> "b.js", scriptId |-> 12, lineNumber |-> 5,
     columnNumber |-> 2, hitCount |-> 2,
     allocations |-> <<[count |-> 1, sizeBytes |-> 8], [count |-> 3, sizeBytes |-> 2]>>],
    [name |-> "", scriptName |-> "", scriptId |-> 0, lineNumber |-> 0,
     columnNumber |-> 0, hitCount |-> 1,
     allocations |-> <<[count |-> 1, sizeBytes |-> 16]>>] }

\* The trees under a root: node k has parent tree[k].parent (0 is the
\* root, which carries no frame), a parent comes before its children, and
\* the children of a node are in the order of their numbers.
TreesUpTo(max) ==
  UNION { { t \in [1..n -> [parent : 0..(n - 1), node : NodeKinds]] :
              \A k \in 1..n : t[k].parent < k } : n \in 0..max }
Trees == TreesUpTo(MaxNodes)

\* What the root node itself carries: nothing, or hits and an allocation.
NoPayload == [hitCount |-> 0, allocations |-> NoAllocations]
RootPayloads ==
  {NoPayload,
   [hitCount |-> 3, allocations |-> <<[count |-> 2, sizeBytes |-> 32]>>]}

\* node.children of node p of tree (p = 0: root.children).
ChildrenOf(tree, p) ==
  SelectSeq([k \in 1..Len(tree) |-> k], LAMBDA k : tree[k].parent = p)

EmptyMap == [k \in {} |-> 0]
\* The tables of a profile before anything is interned.
EmptyTables ==
  [strings |-> <<>>, stringsMap |-> EmptyMap,
   functions |-> <<>>, functionIdMap |-> EmptyMap,
   locations |-> <<>>, locationIdMap |-> EmptyMap]

\* Mutant: index 0 is taken for "not found" (if (loc) in place of
\* loc !== undefined).
getIndexOrAdd_Truthy(t, str) ==
  IF str \in DOMAIN t.stringsMap /\ t.stringsMap[str] # 0
  THEN [t |-> t, loc |-> t.stringsMap[str]]
  ELSE LET loc == Len(Append(t.strings, str)) - 1 IN
       [t |-> [t EXCEPT !.strings = Append(@, str),
                        !.stringsMap = (str :> loc) @@ @],
        loc |-> loc]

\* StringTable.getIndexOrAdd: the tables afterwards and the index returned.
getIndexOrAdd(t, str) ==
  IF str \in DOMAIN t.stringsMap
  THEN [t |-> t, loc |-> t.stringsMap[str]]
  ELSE LET loc == Len(Append(t.strings, str)) - 1 IN
       [t |-> [t EXCEPT !.strings = Append(@, str),
                        !.stringsMap = (str :> loc) @@ @],
        loc |-> loc]

\* new StringTable()
NewStringTable == getIndexOrAdd(EmptyTables, "").t

\* Mutant: functions are keyed by name alone.
getFunction_KeyedByName(t, node) ==
  LET keyStr == node.name IN
  IF keyStr \in DOMAIN t.functionIdMap
  THEN [t |-> t, f |-> t.functions[t.functionIdMap[keyStr]]]
  ELSE LET id == Len(t.functions) + 1
           t1 == [t EXCEPT !.functionIdMap = (keyStr :> id) @@ @]
           nameId == getIndexOrAdd(t1, node.name)
           fileId == getIndexOrAdd(nameId.t, node.scriptName)
           f == [id |-> id, name |-> nameId.loc, systemName |-> nameId.loc,
                 filename |-> fileId.loc]
       IN [t |-> [fileId.t EXCEPT !.functions = Append(@, f)], f |-> f]

\* Mutant: the filename is interned before the name.
getFunction_FilenameFirst(t, node) ==
  LET keyStr == NumStr(node.scriptId) \o ":" \o node.name IN
  IF keyStr \in DOMAIN t.functionIdMap
  THEN [t |-> t, f |-> t.functions[t.functionIdMap[keyStr]]]
  ELSE LET id == Len(t.functions) + 1
           t1 == [t EXCEPT !.functionIdMap = (keyStr :> id) @@ @]
           fileId == getIndexOrAdd(t1, node.scriptName)
           nameId == getIndexOrAdd(fileId.t, node.name)
           f == [id |-> id, name |-> nameId.loc, systemName |-> nameId.loc,
                 filename |-> fileId.loc]
       IN [t |-> [nameId.t EXCEPT !.functions = Append(@, f)], f |-> f]

\* serialize's getFunction: the tables afterwards and the Function returned.
getFunction(t, node) ==
  LET keyStr == NumStr(node.scriptId) \o ":" \o node.name IN
  IF keyStr \in DOMAIN t.functionIdMap
  THEN [t |-> t, f |-> t.functions[t.functionIdMap[keyStr]]]
  ELSE LET id == Len(t.functions) + 1
           t1 == [t EXCEPT !.functionIdMap = (keyStr :> id) @@ @]
           nameId == getIndexOrAdd(t1, node.name)
           fileId == getIndexOrAdd(nameId.t, node.scriptName)
           f == [id |-> id, name |-> nameId.loc, systemName |-> nameId.loc,
                 filename |-> fileId.loc]
       IN [t |-> [fileId.t EXCEPT !.functions = Append(@, f)], f |-> f]

\* serialize's getLine
getLine(t, node) ==
  LET g == getFunction(t, node) IN
  [t |-> g.t, line |-> [functionId |-> g.f.id, line |-> node.lineNumber]]

\* Mutant: a location's id is its 0-based position.
getLocation_ZeroBased(t, node) ==
  LET keyStr == NumStr(node.scriptId) \o ":" \o NumStr(node.lineNumber) \o ":"
                \o NumStr(node.columnNumber) \o ":" \o node.name IN
  IF keyStr \in DOMAIN t.locationIdMap
  THEN [t |-> t, location |-> t.locations[t.locationIdMap[keyStr] + 1]]
  ELSE LET id == Len(t.locations)
           t1 == [t EXCEPT !.locationIdMap = (keyStr :> id) @@ @]
           l == getLine(t1, node)
           location == [id |-> id, line |-> <<l.line>>]
       IN [t |-> [l.t EXCEPT !.locations = Append(@, location)],
           location |-> location]

\* serialize's getLocation: the tables afterwards and the Location returned.
getLocation(t, node) ==
  LET keyStr == NumStr(node.scriptId) \o ":" \o NumStr(node.lineNumber) \o ":"
                \o NumStr(node.columnNumber) \o ":" \o node.name IN
  IF keyStr \in DOMAIN t.locationIdMap
  THEN [t |-> t, location |-> t.locations[t.locationIdMap[keyStr]]]
  ELSE LET id == Len(t.locations) + 1
           t1 == [t EXCEPT !.locationIdMap = (keyStr :> id) @@ @]
           l == getLine(t1, node)
           location == [id |-> id, line |-> <<l.line>>]
       IN [t |-> [l.t EXCEPT !.locations = Append(@, location)],
           location |-> location]

\* createSampleValueType, createTimeValueType, createAllocationValueType
createValueType(t, type, unit) ==
  LET a == getIndexOrAdd(t, type)
      b == getIndexOrAdd(a.t, unit)
  IN [t |-> b.t, valueType |-> [type |-> a.loc, unit |-> b.loc]]

\* serializeTimeProfile's intervalMicros (the default timeIntervalMicros).
IntervalMicros == 1000

\* Mutant: a node without hits gets a sample too.
appendTimeEntryToSamples_ZeroHits(node, stack, samples) ==
  Append(samples, [locationId |-> stack,
                   value |-> <<node.hitCount, node.hitCount * IntervalMicros>>])

\* Mutant: the allocation records of a node are taken last first.
appendHeapEntryToSamples_Reversed(node, stack, samples) ==
  samples \o [k \in 1..Len(node.allocations) |->
                LET a == node.allocations[Len(node.allocations) + 1 - k] IN
                [locationId |-> stack,
                 value |-> <<a.count, a.sizeBytes * a.count>>]]

\* Mutant: a node with hits is counted once.
appendTimeEntryToSamples_OnePerNode(node, stack, samples) ==
  IF node.hitCount > 0
  THEN Append(samples, [locationId |-> stack, value |-> <<1, IntervalMicros>>])
  ELSE samples

\* Mutant: the size of an allocation record is not multiplied by its count.
appendHeapEntryToSamples_SizeOnly(node, stack, samples) ==
  samples \o [k \in 1..Len(node.allocations) |->
                [locationId |-> stack,
                 value |-> <<node.allocations[k].count,
                             node.allocations[k].sizeBytes>>]]

\* appendTimeEntryToSamples
appendTimeEntryToSamples(node, stack, samples) ==
  IF node.hitCount > 0
  THEN Append(samples, [locationId |-> stack,
                        value |-> <<node.hitCount, node.hitCount * IntervalMicros>>])
  ELSE samples

\* appendHeapEntryToSamples
appendHeapEntryToSamples(node, stack, samples) ==
  samples \o [k \in 1..Len(node.allocations) |->
                [locationId |-> stack,
                 value |-> <<node.allocations[k].count,
                             node.allocations[k].sizeBytes * node.allocations[k].count>>]]

\* ------------------------------------------------------- native Profile
\* LocationKey(fileID, line, column, name) and FunctionKey(fileID, name):
\* the keys of locationIDMap and functionIDMap, equal iff their components
\* are.
LocationKey(fileID, line, column, name) == <<fileID, line, column, name>>
FunctionKey(fileID, name) == <<fileID, name>>

\* Mutant: a string's id is the size of the table after the push.
stringID_OneBased(t, s) ==
  IF s \in DOMAIN t.stringsMap
  THEN [t |-> t, id |-> t.stringsMap[s]]
  ELSE LET id == Len(t.strings) + 1 IN
       [t |-> [t EXCEPT !.stringsMap = (s :> id) @@ @,
                        !.strings = Append(@, s)],
        id |-> id]

\* Profile::stringID
stringID(t, s) ==
  IF s \in DOMAIN t.stringsMap
  THEN [t |-> t, id |-> t.stringsMap[s]]
  ELSE LET id == Len(t.strings) IN
       [t |-> [t EXCEPT !.stringsMap = (s :> id) @@ @,
                        !.strings = Append(@, s)],
        id |-> id]

\* Profile::functionID
functionID(t, node) ==
  LET name == node.name
      key == FunctionKey(node.scriptId, name)
  IN
  IF key \in DOMAIN t.functionIdMap
  THEN [t |-> t, id |-> t.functionIdMap[key]]
  ELSE LET nameX == stringID(t, name)
           filenameX == stringID(nameX.t, node.scriptName)
           id == Len(filenameX.t.functions) + 1
           f == [id |-> id, name |-> nameX.id, systemName |-> nameX.id,
                 filename |-> filenameX.id, startLine |-> node.lineNumber]
       IN [t |-> [filenameX.t EXCEPT !.functions = Append(@, f),
                                     !.functionIdMap = (key :> id) @@ @],
           id |-> id]

\* Profile::line
line(t, node) ==
  LET g == functionID(t, node) IN
  [t |-> g.t, line |-> [functionId |-> g.id, line |-> node.lineNumber]]

\* Mutant: the new location is not entered in locationIDMap.
locationID_NoInsert(t, node) ==
  LET key == LocationKey(node.scriptId, node.lineNumber, node.columnNumber,
                         node.name)
  IN
  IF key \in DOMAIN t.locationIdMap
  THEN [t |-> t, id |-> t.locationIdMap[key]]
  ELSE LET id == Len(t.locations) + 1
           l == line(t, node)
           location == [id |-> id, line |-> <<l.line>>]
       IN [t |-> [l.t EXCEPT !.locations = Append(@, location)],
           id |-> id]

\* Profile::locationID
locationID(t, node) ==
  LET key == LocationKey(node.scriptId, node.lineNumber, node.columnNumber,
                         node.name)
  IN
  IF key \in DOMAIN t.locationIdMap
  THEN [t |-> t, id |-> t.locationIdMap[key]]
  ELSE LET id == Len(t.locations) + 1
           l == line(t, node)
           location == [id |-> id, line |-> <<l.line>>]
       IN [t |-> [l.t EXCEPT !.locations = Append(@, location),
                             !.locationIdMap = (key :> id) @@ @],
           id |-> id]

\* Node::samples(stack, profile): the samples of a node, one that carries
\* the stack as its locationID when the node was hit.
NodeSamples(node, stack) ==
  IF node.hitCount > 0
  THEN <<[locationId |-> stack, value |-> <<node.hitCount>>]>>
  ELSE <<>>

\* The arguments a native Profile is constructed with.
NativeArgs ==
  { [periodType |-> "time", periodUnit |-> "microseconds", period |-> 1000,
     timeNanos |-> 5, durationNanos |-> 7, dropFrames |-> "", keepFrames |-> ""],
    [periodType |-> "", periodUnit |-> "", period |-> 0,
     timeNanos |-> 0, durationNanos |-> 0, dropFrames |-> "f", keepFrames |-> "f"] }
\* The order in which the build evaluates the two arguments of
\* ValueType(stringID(periodType), stringID(periodUnit)) (line 175), which
\* the language leaves open: the first one first, or the second.
ArgumentOrders == {"typeFirst", "unitFirst"}
\* The arguments startTimeNanos, durationNanos and intervalBytes of
\* serializeHeapProfile.
HeapProfileArgs ==
  { [startTimeNanos |-> 0, durationNanos |-> 10, intervalBytes |-> 512],
    [startTimeNanos |-> 5, durationNanos |-> 7, intervalBytes |-> 9] }
\* The arguments of addSampleType.
NativeSampleTypes == {<<"samples", "count">>, <<"time", "">>}

\* ---------------------------------------------------------------- state
NoValueType == [type |-> 0, unit |-> 0]
\* TimeProfile.startTime and endTime: a profile taken at time 0 in no time,
\* and the times a sampler may report.
NoTimes == [startTime |-> 0, endTime |-> 0]
SamplerTimes ==
  {[startTime |-> 0, endTime |-> 1000], [startTime |-> 3, endTime |-> 1003]}
\* No profile is being built.
NoSer ==
  [impl |-> "none", root |-> NoPayload, tree |-> <<>>, entries |-> <<>>,
   t |-> EmptyTables,
   sample |-> <<>>, sampleType |-> <<>>, periodType |-> NoValueType,
   dropFramesX |-> 0, keepFramesX |-> 0, stack |-> <<>>, calls |-> 0,
   built |-> FALSE,
   \* prof.startTime and prof.endTime of the time profile serialized, and
   \* the timeNanos, durationNanos and period of the profile built from it
   prof |-> NoTimes, timeNanos |-> 0, durationNanos |-> 0, period |-> 0,
   \* what each node visited got: its ids, its number in the tree (0 for a
   \* node passed to the native addSample), the stack its samples were
   \* built from and their positions in sample
   got |-> <<>>]

\* serializeTimeProfile(prof, IntervalMicros) with prof.topDownRoot = tree,
\* at the start of serialize's loop.
TimeSer(tree) ==
  LET s == createValueType(NewStringTable, "samples", "count")
      v == createValueType(s.t, "time", "microseconds")
      kids == ChildrenOf(tree, 0)
  IN [NoSer EXCEPT !.impl = "time", !.tree = tree, !.t = v.t,
                   !.period = IntervalMicros,
                   !.sampleType = <<s.valueType, v.valueType>>,
                   !.periodType = v.valueType,
                   !.entries = [k \in 1..Len(kids) |->
                                  [node |-> kids[k], stack |-> <<>>]]]

\* serializeTimeProfile(prof, IntervalMicros) with prof.topDownRoot = tree
\* and the startTime and endTime of prof (lines 220-226).
TimedSer(prof, tree) ==
  [TimeSer(tree) EXCEPT
     !.prof = prof,
     !.timeNanos = prof.startTime * 1000 * 1000,
     !.durationNanos = (prof.endTime - prof.startTime) * 1000 * 1000]

\* serializeHeapProfile(prof, startTimeNanos, durationNanos, intervalBytes)
\* with prof = tree, at the start of serialize's loop.
HeapSer(tree, startTimeNanos, durationNanos, intervalBytes) ==
  LET s == createValueType(NewStringTable, "samples", "count")
      v == createValueType(s.t, "space", "bytes")
      kids == ChildrenOf(tree, 0)
  IN [NoSer EXCEPT !.impl = "heap", !.tree = tree, !.t = v.t,
                   !.timeNanos = startTimeNanos,
                   !.durationNanos = durationNanos,
                   !.period = intervalBytes,
                   !.sampleType = <<s.valueType, v.valueType>>,
                   !.periodType = v.valueType,
                   !.entries = [k \in 1..Len(kids) |->
                                  [node |-> kids[k], stack |-> <<>>]]]

\* Profile::Profile(periodType, periodUnit, period, timeNanos,
\* durationNanos, dropFrames, keepFramesX), the two stringID calls of line
\* 175 being evaluated in the given order.
NativeSer(a, order) ==
  LET e == stringID(EmptyTables, "")
      first == stringID(e.t, IF order = "typeFirst" THEN a.periodType
                             ELSE a.periodUnit)
      second == stringID(first.t, IF order = "typeFirst" THEN a.periodUnit
                                  ELSE a.periodType)
      pt == IF order = "typeFirst" THEN first ELSE second
      pu == IF order = "typeFirst" THEN second ELSE first
      df == stringID(second.t, a.dropFrames)
      kf == stringID(df.t, a.keepFrames)
  IN [NoSer EXCEPT !.impl = "native", !.t = kf.t,
                   !.period = a.period, !.timeNanos = a.timeNanos,
                   !.durationNanos = a.durationNanos,
                   !.periodType = [type |-> pt.id, unit |-> pu.id],
                   !.dropFramesX = df.id, !.keepFramesX = kf.id]

\* ============================================================ initConfig
\* A configuration is a record of the options below; an option that is
\* absent or undefined is Undefined (NoLevel for logLevel).
\* serviceContext.service and serviceContext.version are the fields service
\* and version. logLevel is a number, NaN or undefined.
NoLevel == [kind |-> "undefined", n |-> 0]
NaN == [kind |-> "NaN", n |-> 0]
Level(n) == [kind |-> "number", n |-> n]

StringOptions == {"projectId", "service", "version", "zone", "instance"}

\* {}: no option is set.
EmptyConfig ==
  [projectId |-> Undefined, service |-> Undefined, version |-> Undefined,
   logLevel |-> NoLevel, zone |-> Undefined, instance |-> Undefined]

\* config.ts, defaultConfig.
defaultConfig ==
  [logLevel |-> Level(1), disableHeap |-> FALSE, disableTime |-> FALSE]

\* config.ts, internalConfig.
internalConfig ==
  [minProfilingIntervalMillis |-> 60 * 1000, backoffMillis |-> 1000]

\* The config argument of start() / initConfig.
ExplicitConfigs ==
  {[EmptyConfig EXCEPT !.projectId = p, !.service = s[1], !.version = s[2],
                       !.logLevel = l, !.zone = z, !.instance = i] :
     p \in {Undefined, "p-config"},
     s \in {<<Undefined, Undefined>>, <<"s-config", Undefined>>,
            <<"s-config", "v-config">>},
     l \in {NoLevel, Level(2)},
     z \in {Undefined, "", "z-config"},
     i \in {Undefined, "", "i-config"}}

\* The files GCLOUD_PROFILER_CONFIG may name, by path.
ConfigFiles ==
  ("full.json" :> [projectId |-> "p-file", service |-> "s-file",
                   version |-> "v-file", logLevel |-> Level(4),
                   zone |-> "z-file", instance |-> "i-file"])
  @@ ("partial.json" :> [logLevel |-> Level(4), zone |-> "z-file"])

\* The paths GCLOUD_PROFILER_CONFIG is set to: the files of ConfigFiles, and
\* the path of a file that does not exist.
ConfigPaths == DOMAIN ConfigFiles \cup {"missing.json"}

\* The message of the Error require throws for a path it cannot load.
RequireError == "Cannot find module"

\* process.env: a variable that is not set is Undefined.
Environments ==
  {[GCLOUD_PROJECT |-> p, GAE_SERVICE |-> s[1], GAE_VERSION |-> s[2],
    GCLOUD_PROFILER_LOGLEVEL |-> l, GCLOUD_PROFILER_CONFIG |-> f] :
     p \in {Undefined, "p-env"},
     s \in {<<Undefined, Undefined>>, <<"s-env", Undefined>>,
            <<"s-env", "v-env">>},
     l \in {Undefined, "3", "abc", "\r -3"},
     f \in {Undefined} \cup ConfigPaths}

\* The strings GCLOUD_PROFILER_LOGLEVEL ranges over, as sequences of UTF-16
\* code units: "3", "abc", and a carriage return, a space, "-3".
Chars ==
  ("3" :> <<51>>) @@ ("abc" :> <<97, 98, 99>>) @@ ("\r -3" :> <<13, 32, 45, 51>>)

\* StrWhiteSpaceChar, the characters parseInt skips: TAB, VT, FF, SP, NBSP,
\* ZWNBSP (the byte order mark) and the space separators U+1680,
\* U+2000..U+200A, U+202F, U+205F, U+3000; the line terminators LF, CR,
\* U+2028, U+2029.
StrWhiteSpaceChar ==
  {9, 11, 12, 32, 160, 65279, 5760, 8239, 8287, 12288} \cup (8192..8202)
  \cup {10, 13, 8232, 8233}

\* The code units of the decimal digits, "0" to "9".
Digits == 48..57
\* The value of digit c.
DigitValue(c) == c - 48

\* The value of the longest prefix of chars made of decimal digits, after acc.
RECURSIVE ParseDigits(_, _)
ParseDigits(chars, acc) ==
  IF chars # <<>> /\ Head(chars) \in Digits
    THEN ParseDigits(Tail(chars), acc * 10 + DigitValue(Head(chars)))
  ELSE acc

\* chars without its leading white space.
RECURSIVE SkipWhiteSpace(_)
SkipWhiteSpace(chars) ==
  IF chars # <<>> /\ Head(chars) \in StrWhiteSpaceChar
    THEN SkipWhiteSpace(Tail(chars))
  ELSE chars

\* parseInt(chars, 10): leading white space is skipped, a sign ("+" is 43,
\* "-" is 45) is taken, and the result is the number the digits that
\* follow denote, NaN when no digit follows.
parseInt(chars) ==
  LET s == SkipWhiteSpace(chars)
      signed == s # <<>> /\ Head(s) \in {43, 45}
      digits == IF signed THEN Tail(s) ELSE s
  IN IF digits # <<>> /\ Head(digits) \in Digits
       THEN Level(IF signed /\ Head(s) = 45 THEN 0 - ParseDigits(digits, 0)
                  ELSE ParseDigits(digits, 0))
     ELSE NaN

\* extend skips a property whose value is undefined.
IsUndefined(f, v) ==
  IF f = "logLevel" THEN v.kind = "undefined"
  ELSE IF f \in StringOptions THEN v = Undefined
  ELSE FALSE

\* extend(true, target, source): the properties of source that are not
\* undefined are copied over those of target.
extend(target, source) ==
  [f \in DOMAIN target \cup DOMAIN source |->
     IF f \in DOMAIN source /\ ~IsUndefined(f, source[f]) THEN source[f]
     ELSE IF f \in DOMAIN target THEN target[f]
     ELSE source[f]]

\* initConfig, lines 51-64: envConfig. The test envLogLevel !== NaN is true
\* of every number, NaN included.
envConfig(env) ==
  [projectId |-> env.GCLOUD_PROJECT, service |-> env.GAE_SERVICE,
   version |-> env.GAE_VERSION,
   logLevel |-> IF env.GCLOUD_PROFILER_LOGLEVEL # Undefined
                  THEN parseInt(Chars[env.GCLOUD_PROFILER_LOGLEVEL])
                ELSE NoLevel]

\* initConfig, lines 66-70: envSetConfig. When GCLOUD_PROFILER_CONFIG is set,
\* require loads the file it names, or throws when the file cannot be
\* loaded; the Error leaves initConfig, nothing catches it.
envSetConfig(env) ==
  IF env.GCLOUD_PROFILER_CONFIG = Undefined
    THEN [threw |-> FALSE, config |-> [f \in {} |-> Undefined]]
  ELSE IF env.GCLOUD_PROFILER_CONFIG \in DOMAIN ConfigFiles
    THEN [threw |-> FALSE, config |-> ConfigFiles[env.GCLOUD_PROFILER_CONFIG]]
  ELSE [threw |-> TRUE, config |-> [f \in {} |-> Undefined]]

\* initConfig, lines 72-73: mergedConfig, reached when require did not
\* throw.
mergedConfig(config, env) ==
  extend(extend(extend(extend(extend(EmptyConfig, defaultConfig),
                              envSetConfig(env).config), envConfig(env)),
                config), internalConfig)

\* !v of a string option: undefined and '' are falsy.
Falsy(v) == v = Undefined \/ v = ""

\* A metadata value is a sequence of tokens, "/" being a token of its own.
NoTokens == <<>>
RECURSIVE Join(_)
Join(tokens) == IF tokens = <<>> THEN "" ELSE Head(tokens) \o Join(Tail(tokens))

\* The answers of the metadata server to instance/name, instance/zone and
\* project/projectId; ok is FALSE when the request of that field fails.
MetadataOutcomes ==
  {[instanceOk |-> a[1], instance |-> <<"i-meta">>,
    zoneOk |-> a[2], zone |-> z,
    projectOk |-> a[3], projectId |-> "p-meta"] :
     a \in {<<TRUE, TRUE, TRUE>>, <<FALSE, TRUE, TRUE>>, <<TRUE, FALSE, TRUE>>,
            <<TRUE, TRUE, FALSE>>, <<FALSE, FALSE, FALSE>>},
     z \in {<<"projects", "/", "123", "/", "zones", "/", "z-meta">>,
            <<"z-meta">>}}
NoMetadata ==
  [instanceOk |-> FALSE, instance |-> NoTokens, zoneOk |-> FALSE,
   zone |-> NoTokens, projectOk |-> FALSE, projectId |-> Undefined]

\* String.prototype.lastIndexOf('/'): the 0-based index of the last "/",
\* -1 when there is none.
RECURSIVE lastIndexOf(_, _)
lastIndexOf(tokens, n) ==
  IF n = 0 THEN 0 - 1
  ELSE IF tokens[n] = "/" THEN n - 1
  ELSE lastIndexOf(tokens, n - 1)

\* String.prototype.substring(from): the tokens from 0-based index from on.
substring(tokens, from) == SubSeq(tokens, from + 1, Len(tokens))

\* Mutant: off GCP the project falls back to the empty string.
MetadataValues_EmptyProject(m) ==
  IF m.instanceOk /\ m.zoneOk /\ m.projectOk
    THEN [instance |-> m.instance, zone |-> m.zone, projectId |-> m.projectId]
  ELSE [instance |-> NoTokens, zone |-> NoTokens, projectId |-> ""]

\* initConfig, lines 76-87: [instance, zone, projectId], the values of
\* Promise.all, or ['', '', undefined] when one of the requests fails.
MetadataValues(m) ==
  IF m.instanceOk /\ m.zoneOk /\ m.projectOk
    THEN [instance |-> m.instance, zone |-> m.zone, projectId |-> m.projectId]
  ELSE [instance |-> NoTokens, zone |-> NoTokens, projectId |-> Undefined]

\* initConfig, line 89: zone.substring(zone.lastIndexOf('/') + 1).
ZoneName(zone) == Join(substring(zone, lastIndexOf(zone, Len(zone)) + 1))

\* Mutant: the metadata values replace what the layers supplied.
ApplyMetadata_Overwrite(merged, m) ==
  [merged EXCEPT !.zone = ZoneName(MetadataValues(m).zone),
                 !.instance = Join(MetadataValues(m).instance),
                 !.projectId = IF Falsy(@) THEN MetadataValues(m).projectId ELSE @]

\* initConfig, lines 88-96: the falsy options take the metadata values.
ApplyMetadata(merged, m) ==
  [merged EXCEPT !.zone = IF Falsy(@) THEN ZoneName(MetadataValues(m).zone) ELSE @,
                 !.instance = IF Falsy(@) THEN Join(MetadataValues(m).instance) ELSE @,
                 !.projectId = IF Falsy(@) THEN MetadataValues(m).projectId ELSE @]

ServiceError == "Service must be specified in the configuration."
ProjectIdError ==
  "ProjectId must be specified in the configuration when running outside of GCP."

\* Mutant: a configuration without a service is accepted.
ConfigError_NoServiceCheck(merged) ==
  IF merged.projectId = Undefined THEN ProjectIdError
  ELSE ""

\* initConfig, lines 99-108: the message of the Error thrown, "" for none.
ConfigError(merged) ==
  IF merged.service = Undefined THEN ServiceError
  ELSE IF merged.projectId = Undefined THEN ProjectIdError
  ELSE ""

\* The ProfilerConfig fields the Profiler reads.
AgentConfig(merged) ==
  [service |-> merged.service, projectId |-> merged.projectId,
   disableTime |-> merged.disableTime, disableHeap |-> merged.disableHeap,
   backoffMillis |-> merged.backoffMillis,
   minProfilingIntervalMillis |-> merged.minProfilingIntervalMillis]

\* process.env without the variables initConfig reads.
NoEnv ==
  [GCLOUD_PROJECT |-> Undefined, GAE_SERVICE |-> Undefined,
   GAE_VERSION |-> Undefined, GCLOUD_PROFILER_LOGLEVEL |-> Undefined,
   GCLOUD_PROFILER_CONFIG |-> Undefined]

\* initConfig has not been called: the arguments it will be called with,
\* mergedConfig after the merge (layered) and as it is now (merged),
\* what the metadata server answers when asked (server), whether it was
\* asked and what it answered, and how the promise of initConfig settled.
NoInit ==
  [pc |-> "idle", config |-> EmptyConfig, env |-> NoEnv, server |-> NoMetadata,
   layered |-> mergedConfig(EmptyConfig, NoEnv),
   merged |-> mergedConfig(EmptyConfig, NoEnv),
   consulted |-> FALSE, metadata |-> NoMetadata,
   outcome |-> "none", error |-> ""]

\* ====================================================== timer-driven agent
\* src/index.ts: profileInterval and the handlers of 'exit' and
\* 'uncaughtException'.
durationMillis == 10 * 1000
intervalMillis == 60 * 1000

\* (intervalMillis - durationMillis) * Math.random(), in steps of
\* durationMillis; Math.random() is below 1.
StartDelays ==
  {k * durationMillis : k \in 0..((intervalMillis - durationMillis) \div durationMillis - 1)}

\* What profiler.stopProfiling() does when called without a name: the cast
\* of info[0] to a String is unchecked, so the sampler stops the session
\* last started, or the process dies in the binding.
UnnamedStopOutcomes == {"stopped", "crashed"}

\* The module has been loaded and profileInterval has not been called.
NoTimer ==
  [pc |-> "unloaded", isActive |-> FALSE, startDelay |-> 0, nextDelay |-> 0,
   runs |-> 0, sessions |-> {}, stops |-> [r \in 1..MaxRuns |-> 0],
   exceptions |-> 0, streamOpen |-> FALSE, crashed |-> FALSE,
   handler |-> "none", wasActive |-> FALSE, calledStop |-> FALSE]

\* ============================================================ wire encoder
\* proto.h: the encoders ProfileFunction::encode calls. A buffer is a
\* sequence of bytes.
\* encodeVarint: unsigned LEB128, seven bits a byte, the low ones first.
RECURSIVE encodeVarint(_)
encodeVarint(n) ==
  IF n < 128 THEN <<n>> ELSE <<(n % 128) + 128>> \o encodeVarint(n \div 128)

\* encodeTag: (fieldNumber << 3) | wireType as a varint.
encodeTag(fieldNumber, wireType) == encodeVarint(fieldNumber * 8 + wireType)

\* encodeInt64: the field is emitted whatever its value (v >= 0 here).
encodeInt64(fieldNumber, v, buffer) ==
  buffer \o encodeTag(fieldNumber, 0) \o encodeVarint(v)

\* encodeInt64Opt, encodeUint64Opt: the field is emitted when v != 0.
encodeInt64Opt(fieldNumber, v, buffer) ==
  IF v = 0 THEN buffer ELSE encodeInt64(fieldNumber, v, buffer)
encodeUint64Opt(fieldNumber, v, buffer) ==
  IF v = 0 THEN buffer ELSE encodeInt64(fieldNumber, v, buffer)

\* Values of a field on both sides of the one-byte varints, and zero.
FieldValues == {0, 1, 300}
\* ProfileFunction(id, nameX, systemNameX, filenameX, startLine)
ProfileFunctions ==
  [id : FieldValues, nameX : FieldValues, systemNameX : FieldValues,
   filenameX : FieldValues, startLine : FieldValues]

\* Mutant: startLine is emitted with encodeInt64.
ProfileFunction_encode_StartLineAlways(f, buffer) ==
  encodeInt64(5, f.startLine,
    encodeInt64Opt(4, f.filenameX,
      encodeInt64Opt(3, f.systemNameX,
        encodeInt64Opt(2, f.nameX,
          encodeUint64Opt(1, f.id, buffer)))))

\* ProfileFunction::encode(buffer)
ProfileFunction_encode(f, buffer) ==
  encodeInt64Opt(5, f.startLine,
    encodeInt64Opt(4, f.filenameX,
      encodeInt64Opt(3, f.systemNameX,
        encodeInt64Opt(2, f.nameX,
          encodeUint64Opt(1, f.id, buffer)))))

\* No function has been encoded.
NoEnc ==
  [pc |-> "idle",
   f |-> [id |-> 0, nameX |-> 0, systemNameX |-> 0, filenameX |-> 0,
          startLine |-> 0],
   buffer |-> <<>>]

\* ------------------------------------------------------------------- state
VARIABLES
  cfg,           \* the merged configuration start() runs with
  startPromise,  \* the promise start() returned: none (start() has not been
                 \* called), pending, resolved, rejected
  profiler,      \* the Profiler start() constructed, or NoProfiler
  inv,           \* the live invocations of pollProfilerService, by slot
  immediates,    \* setImmediate callbacks queued and not yet run
  lastPoll,      \* the outcome of the latest POST and what createProfile did
                 \* with it; NoPoll while that POST is unanswered
  lastLog,       \* what the last handler logged
  done,          \* summary of the invocation that completed last
  sinceCollect,  \* time since the last collection started
  exited,        \* the process has ended
  ser,           \* the profile a serializer is building, or NoSer
  ic,            \* the call of initConfig made by start()
  ta,            \* the timer-driven agent of src/index.ts
  enc            \* the ProfileFunction being encoded and the buffer

agentVars == <<cfg, startPromise, profiler, inv, immediates, lastPoll, lastLog,
               done, sinceCollect, exited>>
vars == <<agentVars, ser, ic, ta, enc>>

\* No request sent: the options of a POST, of a PATCH.
NoPost == [method |-> "none", uri |-> "",
           body |-> [deployment |-> [projectId |-> Undefined, target |-> Undefined],
                     profileType |-> <<>>]]
NoPatch == [method |-> "none", uri |-> "", body |-> NoProf]

NoProfiler == [constructed |-> FALSE, profileTypes |-> <<>>,
               timeProfiler |-> FALSE, heapProfiler |-> FALSE]

\* A slot no invocation uses.
FreeInv ==
  [pc |-> "free", root |-> FALSE, prof |-> NoProf, received |-> NoProf,
   post |-> NoPost, patch |-> NoPatch, sampler |-> "none", durationMillis |-> 0,
   posts |-> 0, fails |-> 0, collects |-> 0, patches |-> 0,
   delayMs |-> 0, waited |-> 0, sincePost |-> 0,
   postGap |-> NoGap, collectGap |-> NoGap]

NoPoll == [seen |-> FALSE, threw |-> FALSE, statusCode |-> 0, backoff |-> 0,
           returned |-> FALSE, rejected |-> FALSE]
NoIter == [outcome |-> "none", posts |-> 0, fails |-> 0, collects |-> 0,
           patches |-> 0, profileType |-> Undefined, profileBytes |-> Undefined,
           sampler |-> "none", error |-> <<>>]

\* ------------------------------------------------------- pure functions
\* Mutant: the upper boundary is off by one (300 passes as a success).
isErrorResponseCode_OffByOne(code) == code < 200 \/ code > 300

\* isErrorResponseCode
isErrorResponseCode(code) == code < 200 \/ code >= 300

\* Mutant: 4xx answers are not retried.
isRetriableResponseCode_No4xx(code) == code < 400 \/ code >= 500

\* isRetriableResponseCode
isRetriableResponseCode(code) == TRUE

\* isRetriableError
isRetriableError(err) == TRUE

\* Mutant: the backoff before the retry is dropped.
RetryDelayMillis_None(c, r) == 0

\* The argument of delay() before createProfile is retried (lines 209-214):
\* the configured backoff, whatever the response r says.
RetryDelayMillis(c, r) == c.backoffMillis

\* initConfig's validation of the merged configuration.
initConfigOk(c) == c.service # Undefined /\ c.projectId # Undefined

\* Profiler's constructor: the enabled profile types and profilers.
NewProfiler(c) ==
  [constructed |-> TRUE,
   profileTypes |-> (IF ~c.disableTime THEN <<Wall>> ELSE <<>>)
                    \o (IF ~c.disableHeap THEN <<Heap>> ELSE <<>>),
   timeProfiler |-> ~c.disableTime,
   heapProfiler |-> ~c.disableHeap]

\* Mutant: the switch has no default, an unknown type is collected as WALL.
Dispatch_DefaultWall(prof) ==
  IF prof.profileType = Heap
       THEN (IF profiler.heapProfiler THEN "heap" ELSE "heapDisabled")
  ELSE (IF profiler.timeProfiler THEN "time" ELSE "timeDisabled")

\* Mutant: the collectors do not test that their profiler is enabled.
Dispatch_NoEnabledCheck(prof) ==
  IF prof.profileType = Wall THEN "time"
  ELSE IF prof.profileType = Heap THEN "heap"
  ELSE "unexpectedType"

\* Profiler.profile, writeTimeProfile, writeHeapProfile up to the call of
\* the sampler: which collector runs for prof, or the error thrown.
Dispatch(prof) ==
  IF prof.profileType = Wall
       THEN (IF profiler.timeProfiler THEN "time" ELSE "timeDisabled")
  ELSE IF prof.profileType = Heap
       THEN (IF profiler.heapProfiler THEN "heap" ELSE "heapDisabled")
  ELSE "unexpectedType"

\* The err profileAndUpload's first catch logs for outcome d of prof: the
\* message of the Error thrown by profile, writeTimeProfile or
\* writeHeapProfile, or the rejection of a sampler or of the encoding.
CollectError(d, prof) ==
  IF d = "unexpectedType"
    THEN <<"Unexpected profile type ", prof.profileType, ".">>
  ELSE IF d = "timeDisabled"
    THEN <<"Cannot collect time profile, time profiler not enabled.">>
  ELSE IF d = "heapDisabled"
    THEN <<"Cannot collect heap profile, heap profiler not enabled.">>
  ELSE IF d = "collectFailed"
    THEN <<"rejected by the profiler">>
  ELSE <<>>

\* Mutant: the duration of the request decides how long the profiler runs.
CollectDurationMillis_FromRequest(prof) ==
  IF prof.duration = "30s" THEN 30 * 1000 ELSE 10 * 1000

\* writeTimeProfile's durationMillis, the argument of timeProfiler.profile.
CollectDurationMillis(prof) == 10 * 1000

\* Mutant: the body of the POST lists both types whatever is enabled.
CreateProfileRequest_AllTypes(c, p) ==
  [method |-> "POST", uri |-> "/profiles",
   body |-> [deployment |-> [projectId |-> c.projectId, target |-> c.service],
             profileType |-> <<Wall, Heap>>]]

\* createProfile's options: the POST of a POLL.
CreateProfileRequest(c, p) ==
  [method |-> "POST", uri |-> "/profiles",
   body |-> [deployment |-> [projectId |-> c.projectId, target |-> c.service],
             profileType |-> p.profileTypes]]

\* Mutant: the PATCH carries the profile alone, under the request's name.
UploadRequest_BytesOnly(prof) ==
  [method |-> "PATCH", uri |-> API \o "/" \o prof.name,
   body |-> [NoProf EXCEPT !.name = prof.name,
                           !.profileBytes = prof.profileBytes]]

\* profileAndUpload's options: the PATCH of an upload.
UploadRequest(prof) ==
  [method |-> "PATCH", uri |-> API \o "/" \o prof.name, body |-> prof]

\* ----------------------------------------------------------------- actions
\* pollProfilerService, after its awaits (lines 153-157): the next
\* invocation is queued with setImmediate and this one completes, which
\* settles the promise it returned (start()'s promise for the first one).
\* invNow is inv with this handler's other updates applied.
ScheduleNext(i, oc, invNow) ==
  /\ immediates' = immediates + 1
  /\ inv' = [invNow EXCEPT ![i] = FreeInv]
  /\ done' = [outcome |-> oc, posts |-> invNow[i].posts, fails |-> invNow[i].fails,
              collects |-> invNow[i].collects, patches |-> invNow[i].patches,
              profileType |-> invNow[i].prof.profileType,
              profileBytes |-> invNow[i].prof.profileBytes,
              sampler |-> invNow[i].sampler,
              error |-> CollectError(oc, invNow[i].prof)]
  /\ startPromise' = IF invNow[i].root THEN "resolved" ELSE startPromise

\* Mutant: the catch logs and does not return, so the PATCH is issued.
CollectFailed_NoReturn(i, oc, invNow) ==
  /\ lastLog' = "Error collecting profile"
  /\ inv' = [invNow EXCEPT ![i].pc = "upload", ![i].patches = @ + 1,
                           ![i].patch = UploadRequest(invNow[i].prof)]
  /\ UNCHANGED <<immediates, done, startPromise>>

\* profileAndUpload's first catch: log and return, then ScheduleNext.
CollectFailed(i, oc, invNow) ==
  /\ lastLog' = "Error collecting profile"
  /\ ScheduleNext(i, oc, invNow)

\* inv with slot i at the start of a collection (a sampler was invoked).
Collecting(i, prof, pcNext) ==
  [inv EXCEPT ![i].pc = pcNext, ![i].prof = prof, ![i].received = prof,
              ![i].sampler = IF pcNext = "sampling" THEN "time" ELSE "heap",
              ![i].durationMillis = IF pcNext = "sampling"
                                    THEN CollectDurationMillis(prof) ELSE 0,
              ![i].collects = @ + 1, ![i].collectGap = sinceCollect,
              ![i].postGap = NoGap, ![i].sincePost = 0]

\* profileAndUpload(prof) up to its first suspension: profile() dispatches
\* on prof.profileType. heapOk: whether heapProfiler.profile() returns.
BeginCollect(i, prof, heapOk) ==
  LET d == Dispatch(prof) IN
  IF d = "time"
  THEN \* await this.timeProfiler.profile(durationMillis)
       /\ inv' = Collecting(i, prof, "sampling")
       /\ sinceCollect' = 0
       /\ lastLog' = "none"
       /\ UNCHANGED <<immediates, done, startPromise>>
  ELSE IF d = "heap"
  THEN IF heapOk
       THEN \* await profileBytes(p)
            /\ inv' = Collecting(i, prof, "encoding")
            /\ sinceCollect' = 0
            /\ lastLog' = "none"
            /\ UNCHANGED <<immediates, done, startPromise>>
       ELSE /\ sinceCollect' = 0
            /\ CollectFailed(i, "collectFailed", Collecting(i, prof, "encoding"))
  ELSE /\ UNCHANGED sinceCollect
       /\ CollectFailed(i, d, [inv EXCEPT ![i].prof = prof, ![i].received = prof,
                                          ![i].postGap = NoGap, ![i].sincePost = 0])

\* A new invocation of pollProfilerService in slot i: createProfile issues
\* the POST and awaits the response.
Polling(i, isRoot, p) ==
  [inv EXCEPT ![i] = [FreeInv EXCEPT !.pc = "poll", !.root = isRoot, !.posts = 1,
                                     !.post = CreateProfileRequest(cfg, p)]]

\* start(config) resumed after its await of initConfig (lines 127-129):
\* initConfig returned cfg and new Profiler and profiler.start() follow, or
\* it threw and the promise of start() is rejected. Until then the call
\* has returned a pending promise and there is no Profiler and no POST.
Start ==
  /\ startPromise = "pending"
  /\ ~profiler.constructed
  /\ IF initConfigOk(cfg)
     THEN /\ profiler' = NewProfiler(cfg)
          /\ startPromise' = "pending"
          /\ inv' = Polling(1, TRUE, NewProfiler(cfg))
     ELSE /\ startPromise' = "rejected"
          /\ UNCHANGED <<profiler, inv>>
  /\ UNCHANGED <<ser, ic, ta, enc, exited, cfg, immediates, lastPoll, lastLog, done, sinceCollect>>

\* createProfile resumed by the outcome r of the POST (lines 191-216), and,
\* when it returns the body, pollProfilerService line 152.
PollRespond(i, r, heapOk) ==
  /\ inv[i].pc = "poll"
  /\ (r.threw \/ isErrorResponseCode(r.statusCode)) => inv[i].fails < MaxFails
  /\ LET retryRequest ==
           IF r.threw
           THEN isRetriableError(r) \/ isRetriableResponseCode(r.statusCode)
           ELSE isRetriableResponseCode(r.statusCode)
         seen == [seen |-> TRUE, threw |-> r.threw, statusCode |-> r.statusCode,
                  backoff |-> r.backoff, returned |-> FALSE, rejected |-> FALSE]
     IN
     IF ~r.threw /\ ~isErrorResponseCode(r.statusCode)
     THEN /\ lastPoll' = [seen EXCEPT !.returned = TRUE]
          /\ BeginCollect(i, r.body, heapOk)
     ELSE IF retryRequest
     THEN \* await delay(this.config.backoffMillis)
          /\ lastPoll' = seen
          /\ lastLog' = "Error creating profile"
          /\ inv' = [inv EXCEPT ![i].pc = "backoff", ![i].fails = @ + 1,
                                ![i].delayMs = RetryDelayMillis(cfg, r),
                                ![i].waited = 0, ![i].postGap = NoGap]
          /\ UNCHANGED <<immediates, done, startPromise, sinceCollect>>
     ELSE \* throw requestError: createProfile and pollProfilerService reject
          /\ lastPoll' = [seen EXCEPT !.rejected = TRUE]
          /\ lastLog' = "Error creating profile"
          /\ inv' = [inv EXCEPT ![i] = FreeInv]
          /\ done' = [NoIter EXCEPT !.outcome = "pollRejected",
                                    !.posts = inv[i].posts,
                                    !.fails = inv[i].fails + 1]
          /\ startPromise' = IF inv[i].root THEN "rejected" ELSE startPromise
          /\ UNCHANGED <<immediates, sinceCollect>>
  /\ UNCHANGED <<ser, ic, ta, enc, exited, cfg, profiler>>

\* delay(backoffMillis) has elapsed: return this.createProfile() issues the
\* next POST.
BackoffElapsed(i) ==
  /\ inv[i].pc = "backoff"
  /\ inv[i].waited >= inv[i].delayMs
  /\ inv' = [inv EXCEPT ![i].pc = "poll", ![i].posts = @ + 1,
                        ![i].post = CreateProfileRequest(cfg, profiler),
                        ![i].postGap = inv[i].sincePost, ![i].sincePost = 0,
                        ![i].waited = 0, ![i].delayMs = 0]
  /\ lastLog' = "none"
  /\ lastPoll' = NoPoll
  /\ UNCHANGED <<ser, ic, ta, enc, exited, cfg, startPromise, profiler, immediates, done, sinceCollect>>

\* writeTimeProfile resumed by the time profiler: it resolves with a
\* profile (await profileBytes(p) follows) or rejects.
SamplerDone(i, ok) ==
  /\ inv[i].pc = "sampling"
  /\ IF ok
     THEN /\ inv' = [inv EXCEPT ![i].pc = "encoding", ![i].collectGap = NoGap]
          /\ UNCHANGED <<immediates, done, startPromise, lastLog>>
     ELSE CollectFailed(i, "collectFailed", inv)
  /\ UNCHANGED <<ser, ic, ta, enc, exited, cfg, profiler, lastPoll, sinceCollect>>

\* Mutant: the PATCH is not awaited, the next invocation is queued at once.
EncodeDone_NoAwait(i, ok) ==
  /\ inv[i].pc = "encoding"
  /\ IF ok
     THEN /\ inv' = [inv EXCEPT ![i].pc = "upload", ![i].patches = @ + 1,
                                ![i].prof.profileBytes = "bytes",
                                ![i].patch = UploadRequest(
                                   [inv[i].prof EXCEPT !.profileBytes = "bytes"]),
                                ![i].collectGap = NoGap]
          /\ immediates' = immediates + 1
          /\ UNCHANGED <<done, startPromise, lastLog>>
     ELSE CollectFailed(i, "collectFailed", inv)
  /\ UNCHANGED <<ser, ic, ta, enc, exited, cfg, profiler, lastPoll, sinceCollect>>

\* profileBytes resolved (gzip, base64) or rejected; on success
\* profileAndUpload issues the PATCH (lines 234-241).
EncodeDone(i, ok) ==
  /\ inv[i].pc = "encoding"
  /\ IF ok
     THEN /\ inv' = [inv EXCEPT ![i].pc = "upload", ![i].patches = @ + 1,
                                ![i].prof.profileBytes = "bytes",
                                ![i].patch = UploadRequest(
                                   [inv[i].prof EXCEPT !.profileBytes = "bytes"]),
                                ![i].collectGap = NoGap]
          /\ UNCHANGED <<immediates, done, startPromise, lastLog>>
     ELSE CollectFailed(i, "collectFailed", inv)
  /\ UNCHANGED <<ser, ic, ta, enc, exited, cfg, profiler, lastPoll, sinceCollect>>

\* The outcomes of the PATCH.
UploadResponses == [threw : BOOLEAN, statusCode : StatusCodes]

\* Mutant: a failed PATCH is sent again.
UploadRespond_Retry(i, r) ==
  /\ inv[i].pc = "upload"
  /\ IF r.threw \/ isErrorResponseCode(r.statusCode)
     THEN /\ lastLog' = "Error uploading profile"
          /\ inv' = [inv EXCEPT ![i].patches = @ + 1]
          /\ UNCHANGED <<immediates, done, startPromise>>
     ELSE /\ lastLog' = "none"
          /\ ScheduleNext(i, "uploaded", inv)
  /\ UNCHANGED <<ser, ic, ta, enc, exited, cfg, profiler, lastPoll, sinceCollect>>

\* Mutant: the error of a failed PATCH is not caught: pollProfilerService
\* rejects and queues no next invocation.
UploadRespond_Throws(i, r) ==
  /\ inv[i].pc = "upload"
  /\ IF r.threw \/ isErrorResponseCode(r.statusCode)
     THEN /\ lastLog' = "none"
          /\ inv' = [inv EXCEPT ![i] = FreeInv]
          /\ done' = [NoIter EXCEPT !.outcome = "uploadFailed",
                                    !.posts = inv[i].posts,
                                    !.fails = inv[i].fails,
                                    !.collects = inv[i].collects,
                                    !.patches = inv[i].patches,
                                    !.profileType = inv[i].prof.profileType,
                                    !.profileBytes = inv[i].prof.profileBytes,
                                    !.sampler = inv[i].sampler]
          /\ startPromise' = IF inv[i].root THEN "rejected" ELSE startPromise
          /\ UNCHANGED immediates
     ELSE /\ lastLog' = "none"
          /\ ScheduleNext(i, "uploaded", inv)
  /\ UNCHANGED <<ser, ic, ta, enc, exited, cfg, profiler, lastPoll, sinceCollect>>

\* profileAndUpload resumed by the outcome r of the PATCH (lines 241-248),
\* then ScheduleNext.
UploadRespond(i, r) ==
  /\ inv[i].pc = "upload"
  /\ IF r.threw \/ isErrorResponseCode(r.statusCode)
     THEN /\ lastLog' = "Error uploading profile"
          /\ ScheduleNext(i, "uploadFailed", inv)
     ELSE /\ lastLog' = "none"
          /\ ScheduleNext(i, "uploaded", inv)
  /\ UNCHANGED <<ser, ic, ta, enc, exited, cfg, profiler, lastPoll, sinceCollect>>

FreeSlots == {i \in Slots : inv[i].pc = "free"}

\* The queued setImmediate callback runs: a new pollProfilerService.
RunImmediate ==
  /\ ~exited
  /\ immediates > 0
  /\ FreeSlots # {}
  /\ LET i == CHOOSE j \in FreeSlots : \A k \in FreeSlots : j <= k IN
     inv' = Polling(i, FALSE, profiler)
  /\ immediates' = immediates - 1
  /\ done' = NoIter
  /\ lastLog' = "none"
  /\ lastPoll' = NoPoll
  /\ UNCHANGED <<ser, ic, ta, enc, exited, cfg, startPromise, profiler, sinceCollect>>

\* The process ends with the setImmediate callback queued: the callback is
\* unref'd (line 156) and keeps no event loop alive, so when no request,
\* timer or collection of the agent is outstanding and nothing else holds
\* the loop, the process may end before the callback runs.
ProcessExit ==
  /\ ~exited
  /\ immediates > 0
  /\ \A i \in Slots : inv[i].pc = "free"
  /\ exited' = TRUE
  /\ UNCHANGED <<ser, ic, ta, enc, cfg, startPromise, profiler, inv, immediates,
                 lastPoll, lastLog, done, sinceCollect>>

\* One unit of time passes: delay()'s timer and the measured gaps advance.
Tick ==
  /\ ~exited
  /\ inv' = [i \in Slots |->
              [inv[i] EXCEPT
                 !.waited = IF inv[i].pc = "backoff" THEN Min(@ + 1, TimeCap) ELSE @,
                 !.sincePost = IF inv[i].pc \in {"poll", "backoff"}
                               THEN Min(@ + 1, TimeCap) ELSE @]]
  /\ sinceCollect' = IF sinceCollect = NoGap THEN NoGap
                     ELSE Min(sinceCollect + 1, TimeCap)
  /\ UNCHANGED <<ser, ic, ta, enc, exited, cfg, startPromise, profiler, immediates, lastPoll, lastLog, done>>

\* start(config) has been called and awaits initConfig, which will return
\* cfg or throw. The state is that of one call: start() has no guard
\* against being called again, and every call constructs a Profiler of its
\* own and starts a loop of its own, which shares nothing with this one.
Init ==
  /\ cfg \in Configs
  /\ startPromise = "pending"
  /\ profiler = NoProfiler
  /\ inv = [i \in Slots |-> FreeInv]
  /\ immediates = 0
  /\ lastPoll = NoPoll
  /\ lastLog = "none"
  /\ done = NoIter
  /\ sinceCollect = NoGap
  /\ exited = FALSE
  /\ ser = NoSer
  /\ ic = NoInit
  /\ ta = NoTimer
  /\ enc = NoEnc

Next ==
  \/ Start
  \/ \E i \in Slots, r \in Responses, heapOk \in BOOLEAN : PollRespond(i, r, heapOk)
  \/ \E i \in Slots : BackoffElapsed(i)
  \/ \E i \in Slots, ok \in BOOLEAN : SamplerDone(i, ok)
  \/ \E i \in Slots, ok \in BOOLEAN : EncodeDone(i, ok)
  \/ \E i \in Slots, r \in UploadResponses : UploadRespond(i, r)
  \/ RunImmediate
  \/ ProcessExit
  \/ Tick

Spec == Init /\ [][Next]_vars

\* Fairness of the event loop and of the agent's collaborators: a queued
\* setImmediate callback runs, a sampler and the encoding settle, and the
\* control plane answers an upload.
FairSpec ==
  /\ Spec
  /\ WF_vars(RunImmediate)
  /\ WF_vars(\E i \in Slots, ok \in BOOLEAN : SamplerDone(i, ok))
  /\ WF_vars(\E i \in Slots, ok \in BOOLEAN : EncodeDone(i, ok))
  /\ WF_vars(\E i \in Slots, r \in UploadResponses : UploadRespond(i, r))

\* -------------------------------------------------------------- actions
\* Mutant: the location is pushed at the end of the stack.
unshift_Push(stack, id) == Append(stack, id)

\* stack.unshift(id): id becomes the first entry of the stack.
unshift(stack, id) == <<id>> \o stack

\* One iteration of serialize's loop: the last entry is popped, its node
\* gets its location, its samples are appended and its children are
\* pushed. With no entry left the loop ends and the tables are stored in
\* the profile.
SerializeStep ==
  /\ ser.impl \in {"time", "heap"}
  /\ ~ser.built
  /\ IF ser.entries = <<>>
     THEN ser' = [ser EXCEPT !.built = TRUE]
     ELSE LET entry == ser.entries[Len(ser.entries)]
              node == ser.tree[entry.node].node
              l == getLocation(ser.t, node)
              stack == unshift(entry.stack, l.location.id)
              sample == IF ser.impl = "time"
                        THEN appendTimeEntryToSamples(node, stack, ser.sample)
                        ELSE appendHeapEntryToSamples(node, stack, ser.sample)
              kids == ChildrenOf(ser.tree, entry.node)
          IN ser' = [ser EXCEPT
                       !.t = l.t,
                       !.sample = sample,
                       !.entries = SubSeq(@, 1, Len(@) - 1)
                                   \o [k \in 1..Len(kids) |->
                                         [node |-> kids[k], stack |-> stack]],
                       !.got = Append(@, [node |-> node, locationId |-> l.location.id,
                                          functionId |-> l.location.line[1].functionId,
                                          index |-> entry.node, stack |-> stack,
                                          from |-> Len(ser.sample) + 1,
                                          to |-> Len(sample)])]
  /\ UNCHANGED <<agentVars, ic, ta, enc>>

\* Profile::addSampleType(type, unit)
AddSampleType(type, unit) ==
  /\ ser.impl = "native"
  /\ ser.calls < MaxCalls
  /\ LET typeX == stringID(ser.t, type)
         unitX == stringID(typeX.t, unit)
     IN ser' = [ser EXCEPT !.t = unitX.t, !.calls = @ + 1,
                           !.sampleType = Append(@, [type |-> typeX.id,
                                                     unit |-> unitX.id])]
  /\ UNCHANGED <<agentVars, ic, ta, enc>>

\* Profile::addSample(node, stack), the caller passing an empty stack
\* (fresh) or the stack the previous call left.
AddSample(node, fresh) ==
  /\ ser.impl = "native"
  /\ ser.calls < MaxCalls
  /\ LET loc == locationID(ser.t, node)
         stack == <<loc.id>> \o (IF fresh THEN <<>> ELSE ser.stack)
     IN ser' = [ser EXCEPT
                  !.t = loc.t, !.calls = @ + 1, !.stack = stack,
                  !.sample = @ \o NodeSamples(node, stack),
                  !.got = Append(@, [node |-> node, locationId |-> loc.id,
                                     functionId |->
                                       loc.t.locations[loc.id].line[1].functionId,
                                     index |-> 0, stack |-> stack,
                                     from |-> Len(ser.sample) + 1,
                                     to |-> Len(ser.sample)
                                            + Len(NodeSamples(node, stack))])]
  /\ UNCHANGED <<agentVars, ic, ta, enc>>

\* The agent, idle, while a profile is serialized.
SerInit ==
  /\ cfg = [service |-> "svc", projectId |-> "proj", disableTime |-> FALSE,
            disableHeap |-> FALSE, backoffMillis |-> 1,
            minProfilingIntervalMillis |-> 1]
  /\ startPromise = "none"
  /\ profiler = NoProfiler
  /\ inv = [i \in Slots |-> FreeInv]
  /\ immediates = 0
  /\ lastPoll = NoPoll
  /\ lastLog = "none"
  /\ done = NoIter
  /\ sinceCollect = NoGap
  /\ exited = FALSE
  /\ ic = NoInit
  /\ ta = NoTimer
  /\ enc = NoEnc
  /\ ser \in {TimeSer(tree) : tree \in Trees}
             \cup {HeapSer(tree, a.startTimeNanos, a.durationNanos, a.intervalBytes) :
                      tree \in Trees, a \in HeapProfileArgs}
             \cup {NativeSer(a, order) : a \in NativeArgs, order \in ArgumentOrders}

\* serializeTimeProfile / serializeHeapProfile called with a tree whose
\* root node has a payload of its own, the time profile with the times of
\* a sampler.
RootedInit ==
  /\ cfg = [service |-> "svc", projectId |-> "proj", disableTime |-> FALSE,
            disableHeap |-> FALSE, backoffMillis |-> 1,
            minProfilingIntervalMillis |-> 1]
  /\ startPromise = "none"
  /\ profiler = NoProfiler
  /\ inv = [i \in Slots |-> FreeInv]
  /\ immediates = 0
  /\ lastPoll = NoPoll
  /\ lastLog = "none"
  /\ done = NoIter
  /\ sinceCollect = NoGap
  /\ exited = FALSE
  /\ ic = NoInit
  /\ ta = NoTimer
  /\ enc = NoEnc
  /\ ser \in {[TimedSer(prof, tree) EXCEPT !.root = r] :
                 prof \in SamplerTimes, tree \in TreesUpTo(MaxRootedNodes),
                 r \in RootPayloads}
             \cup {[HeapSer(tree, a.startTimeNanos, a.durationNanos,
                              a.intervalBytes) EXCEPT !.root = r] :
                      tree \in TreesUpTo(MaxRootedNodes), a \in HeapProfileArgs,
                      r \in RootPayloads}

RootedNext == SerializeStep

RootedSpec == RootedInit /\ [][RootedNext]_vars

SerNext ==
  \/ SerializeStep
  \/ \E st \in NativeSampleTypes : AddSampleType(st[1], st[2])
  \/ \E node \in NodeKinds, fresh \in BOOLEAN : AddSample(node, fresh)

SerSpec == SerInit /\ [][SerNext]_vars

\* ------------------------------------------------------ initConfig actions
\* initConfig, lines 99-108: the promise of initConfig settles.
Settle(s) ==
  [s EXCEPT !.pc = "settled", !.error = ConfigError(s.merged),
            !.outcome = IF ConfigError(s.merged) = "" THEN "resolved"
                        ELSE "rejected"]

\* start(config) is called: initConfig rejects with the Error of require
\* when the configuration file does not load; otherwise it merges the
\* layers and runs to the await of the metadata requests, or, when zone and
\* instance are set, to its end.
StartCalled ==
  /\ ic.pc = "idle"
  /\ startPromise' = "pending"
  /\ IF envSetConfig(ic.env).threw
       THEN ic' = [ic EXCEPT !.pc = "settled", !.outcome = "rejected",
                             !.error = RequireError]
     ELSE LET m == mergedConfig(ic.config, ic.env)
          IN IF Falsy(m.zone) \/ Falsy(m.instance)
               THEN ic' = [ic EXCEPT !.pc = "metadata", !.layered = m,
                                     !.merged = m, !.consulted = TRUE]
             ELSE ic' = Settle([ic EXCEPT !.layered = m, !.merged = m])
  /\ UNCHANGED <<cfg, profiler, inv, immediates, lastPoll, lastLog, done,
                 sinceCollect, exited, ser, ta, enc>>

\* The three metadata requests have settled as m, the answers of the
\* server: initConfig runs from the await to its end.
MetadataSettled(m) ==
  /\ ic.pc = "metadata"
  /\ m = ic.server
  /\ ic' = Settle([ic EXCEPT !.metadata = m,
                             !.merged = ApplyMetadata(ic.merged, m)])
  /\ UNCHANGED <<agentVars, ser, ta, enc>>

\* start after its await of initConfig (lines 127-129): new Profiler and
\* profiler.start(), or the rejection of initConfig passed on.
StartResumed ==
  /\ ic.pc = "settled"
  /\ ic' = [ic EXCEPT !.pc = "started"]
  /\ IF ic.outcome = "resolved"
       THEN LET c == AgentConfig(ic.merged)
            IN /\ cfg' = c
               /\ profiler' = NewProfiler(c)
               /\ startPromise' = "pending"
               /\ inv' = [inv EXCEPT ![1] =
                           [FreeInv EXCEPT !.pc = "poll", !.root = TRUE, !.posts = 1,
                                           !.post = CreateProfileRequest(c, NewProfiler(c))]]
     ELSE /\ startPromise' = "rejected"
          /\ UNCHANGED <<cfg, profiler, inv>>
  /\ UNCHANGED <<immediates, lastPoll, lastLog, done, sinceCollect, exited, ser,
                 ta, enc>>

ConfInit ==
  /\ cfg = AgentConfig(NoInit.merged)
  /\ startPromise = "none"
  /\ profiler = NoProfiler
  /\ inv = [i \in Slots |-> FreeInv]
  /\ immediates = 0
  /\ lastPoll = NoPoll
  /\ lastLog = "none"
  /\ done = NoIter
  /\ sinceCollect = NoGap
  /\ exited = FALSE
  /\ ser = NoSer
  /\ ta = NoTimer
  /\ enc = NoEnc
  /\ ic \in {[NoInit EXCEPT !.config = c, !.env = e, !.server = m] :
               c \in ExplicitConfigs, e \in Environments,
               m \in MetadataOutcomes}

ConfNext ==
  \/ StartCalled
  \/ \E m \in MetadataOutcomes : MetadataSettled(m)
  \/ StartResumed

ConfSpec == ConfInit /\ [][ConfNext]_vars

\* ---------------------------------------------------- timer agent actions
\* The session with the greatest run number: the one started last.
LastSession(sessions) == CHOOSE r \in sessions : \A q \in sessions : q <= r

\* The handler of 'exit' and of 'uncaughtException': if (isActive)
\* profiler.stopProfiling(). The call names no session; with outcome
\* "stopped" the sampler stops the session started last, and the binding
\* dereferences a null profile when there is none.
StopIfActive(t, name, outcome) ==
  LET seen == [t EXCEPT !.handler = name, !.wasActive = t.sessions # {},
                        !.calledStop = t.isActive]
  IN IF ~t.isActive THEN seen
     ELSE IF outcome = "stopped" /\ t.sessions # {}
       THEN [seen EXCEPT !.sessions = @ \ {LastSession(t.sessions)},
                         !.stops[LastSession(t.sessions)] = @ + 1]
     ELSE [seen EXCEPT !.pc = "exited", !.crashed = TRUE]

\* The start timer fires (lines 39-43): a session is started under a new
\* name and the stop timer is set.
StartTimerFired ==
  /\ ta.pc = "startTimer"
  /\ ta.runs < MaxRuns
  /\ ta' = [ta EXCEPT !.pc = "stopTimer", !.runs = @ + 1,
                      !.sessions = @ \cup {ta.runs + 1}, !.isActive = TRUE,
                      !.handler = "start", !.wasActive = ta.sessions # {},
                      !.calledStop = FALSE]
  /\ UNCHANGED <<agentVars, ser, ic, enc>>

\* The stop timer fires (lines 44-52): isActive is cleared and the session
\* runName is stopped, serialized and written; stopProfiling returns a null
\* profile for a session that is not running and the binding dereferences it.
StopTimerFired ==
  /\ ta.pc = "stopTimer"
  /\ IF ta.runs \in ta.sessions
       THEN ta' = [ta EXCEPT !.pc = "writing", !.isActive = FALSE,
                             !.sessions = @ \ {ta.runs}, !.stops[ta.runs] = @ + 1,
                             !.streamOpen = TRUE, !.handler = "stop",
                             !.wasActive = TRUE, !.calledStop = TRUE]
     ELSE ta' = [ta EXCEPT !.pc = "exited", !.isActive = FALSE,
                           !.stops[ta.runs] = @ + 1, !.crashed = TRUE,
                           !.handler = "stop", !.wasActive = FALSE,
                           !.calledStop = TRUE]
  /\ UNCHANGED <<agentVars, ser, ic, enc>>

\* The output stream emits 'close' (lines 53-57): the timer of the next
\* profileInterval is set.
StreamClosed ==
  /\ ta.pc = "writing"
  /\ ta' = [ta EXCEPT !.pc = "nextTimer", !.streamOpen = FALSE,
                      !.nextDelay = intervalMillis - ta.startDelay - durationMillis,
                      !.handler = "close", !.wasActive = ta.sessions # {},
                      !.calledStop = FALSE]
  /\ UNCHANGED <<agentVars, ser, ic, enc>>

\* profileInterval (lines 35-38), called by the timer set on 'close': a
\* start delay is drawn and the start timer set.
NextTimerFired(delay) ==
  /\ ta.pc = "nextTimer"
  /\ ta' = [ta EXCEPT !.pc = "startTimer", !.startDelay = delay,
                      !.handler = "interval", !.wasActive = ta.sessions # {},
                      !.calledStop = FALSE]
  /\ UNCHANGED <<agentVars, ser, ic, enc>>

\* process.on('uncaughtException') (lines 67-71): the process goes on.
UncaughtException(outcome) ==
  /\ ta.pc \notin {"unloaded", "exited"}
  /\ ta.exceptions < MaxExceptions
  /\ ta' = [StopIfActive(ta, "uncaughtException", outcome)
              EXCEPT !.exceptions = @ + 1]
  /\ UNCHANGED <<agentVars, ser, ic, enc>>

\* process.on('exit') (lines 62-66): the process ends.
Exit(outcome) ==
  /\ ta.pc \notin {"unloaded", "exited"}
  /\ ta' = [StopIfActive(ta, "exit", outcome) EXCEPT !.pc = "exited"]
  /\ UNCHANGED <<agentVars, ser, ic, enc>>

\* The module is loaded: profileInterval() is called (line 73).
TimerInit ==
  /\ cfg = AgentConfig(NoInit.merged)
  /\ startPromise = "none"
  /\ profiler = NoProfiler
  /\ inv = [i \in Slots |-> FreeInv]
  /\ immediates = 0
  /\ lastPoll = NoPoll
  /\ lastLog = "none"
  /\ done = NoIter
  /\ sinceCollect = NoGap
  /\ exited = FALSE
  /\ ser = NoSer
  /\ ic = NoInit
  /\ enc = NoEnc
  /\ ta \in {[NoTimer EXCEPT !.pc = "startTimer", !.startDelay = d] :
               d \in StartDelays}

TimerNext ==
  \/ StartTimerFired
  \/ StopTimerFired
  \/ StreamClosed
  \/ \E d \in StartDelays : NextTimerFired(d)
  \/ \E o \in UnnamedStopOutcomes : UncaughtException(o)
  \/ \E o \in UnnamedStopOutcomes : Exit(o)

TimerSpec == TimerInit /\ [][TimerNext]_vars

\* ---------------------------------------------------------- encoder actions
\* f.encode(&buffer) for a ProfileFunction f.
EncodeFunction ==
  /\ enc.pc = "idle"
  /\ enc' = [enc EXCEPT !.pc = "encoded",
                        !.buffer = ProfileFunction_encode(enc.f, enc.buffer)]
  /\ UNCHANGED <<agentVars, ser, ic, ta>>

EncInit ==
  /\ cfg = AgentConfig(NoInit.merged)
  /\ startPromise = "none"
  /\ profiler = NoProfiler
  /\ inv = [i \in Slots |-> FreeInv]
  /\ immediates = 0
  /\ lastPoll = NoPoll
  /\ lastLog = "none"
  /\ done = NoIter
  /\ sinceCollect = NoGap
  /\ exited = FALSE
  /\ ser = NoSer
  /\ ic = NoInit
  /\ ta = NoTimer
  /\ enc \in {[NoEnc EXCEPT !.f = f] : f \in ProfileFunctions}

EncNext == EncodeFunction

EncSpec == EncInit /\ [][EncNext]_vars

\* ------------------------------------------------------------------ claims
Live == {i \in Slots : inv[i].pc # "free"}
Is2xx(p) == ~p.threw /\ p.statusCode >= 200 /\ p.statusCode < 300
CollectErrors == {"collectFailed", "timeDisabled", "heapDisabled", "unexpectedType"}
IterationOutcomes == CollectErrors \cup {"uploaded", "uploadFailed"}

\* C1: createProfile returns the body of a POLL response exactly when the
\* POST answered with a status in [200, 300); a collection or an upload is
\* in progress, or was done, only for such a response.
C1_CollectOnlyOn2xx ==
  /\ lastPoll.seen => (lastPoll.returned <=> Is2xx(lastPoll))
  /\ \A i \in Slots :
       inv[i].pc \in {"sampling", "encoding", "upload"} =>
         lastPoll.seen /\ Is2xx(lastPoll)
  /\ done.collects > 0 => lastPoll.seen /\ Is2xx(lastPoll)

\* A collection runs for a 299 answer that followed a failed POLL.
C1_Witness ==
  \E i \in Slots :
    inv[i].pc = "sampling" /\ inv[i].fails > 0 /\ lastPoll.statusCode = 299

\* C2: after k failed POLLs and a 2xx answer the agent has issued k+1 POSTs,
\* any two consecutive POSTs are at least backoffMillis apart, and a
\* collection that succeeds is the only one and is followed by one upload.
C2_RetryThenCollectOnce ==
  /\ \A i \in Slots :
       /\ inv[i].pc \in {"poll", "sampling", "encoding", "upload"} =>
            inv[i].posts = inv[i].fails + 1
       /\ inv[i].pc = "backoff" => inv[i].posts = inv[i].fails
       /\ inv[i].postGap # NoGap => inv[i].postGap >= cfg.backoffMillis
       /\ inv[i].pc = "upload" => inv[i].collects = 1 /\ inv[i].patches = 1
  /\ done.outcome \in IterationOutcomes => done.posts = done.fails + 1
  /\ done.outcome \in {"uploaded", "uploadFailed"} =>
       done.collects = 1 /\ done.patches = 1

\* Two failed POLLs, then a 2xx: three POSTs, one collection, one upload.
C2_Witness ==
  /\ done.outcome = "uploaded"
  /\ done.fails = 2 /\ done.posts = 3 /\ done.collects = 1 /\ done.patches = 1

\* C3: createProfile never rejects: every failed POLL, whatever its status
\* code or error, is logged and followed by the backoff and a retry; no
\* POLL error settles start()'s promise.
C3_PollNeverRejects ==
  /\ ~lastPoll.rejected
  /\ done.outcome # "pollRejected"
  /\ profiler.constructed => startPromise # "rejected"
  /\ (lastPoll.seen /\ ~Is2xx(lastPoll)) =>
       /\ lastLog = "Error creating profile"
       /\ \E i \in Slots : inv[i].pc = "backoff"

\* A POLL answered 404 is being retried.
C3_Witness ==
  /\ lastPoll.seen /\ ~lastPoll.threw /\ lastPoll.statusCode = 404
  /\ \E i \in Slots : inv[i].pc = "backoff" /\ inv[i].fails = 1

\* C4: the wait before the retry of a failed POLL is the server-supplied
\* backoff when the response carries one, and backoffMillis otherwise.
C4_ServerBackoffPreferred ==
  \A i \in Slots :
    inv[i].pc = "backoff" =>
      inv[i].delayMs = IF lastPoll.backoff > 0 THEN lastPoll.backoff
                       ELSE cfg.backoffMillis

\* C5: when the collection fails no PATCH is issued for that iteration and
\* the iteration completes without an error; a PATCH is outstanding only
\* after a collection that succeeded.
C5_NoUploadAfterFailedCollect ==
  /\ done.outcome \in CollectErrors =>
       /\ done.patches = 0
       /\ lastLog = "Error collecting profile"
       /\ immediates > 0
       /\ startPromise = "resolved"
  /\ \A i \in Slots :
       inv[i].pc = "upload" =>
         inv[i].collects = 1 /\ inv[i].prof.profileBytes # Undefined

\* The time profiler (or the encoding) rejected in some iteration.
C5_Witness == done.outcome = "collectFailed" /\ done.collects = 1

\* C6: when the PATCH fails the error is logged, the PATCH is not sent
\* again, and the iteration completes without an error.
C6_UploadFailureSwallowed ==
  /\ done.outcome = "uploadFailed" =>
       /\ done.patches = 1
       /\ lastLog = "Error uploading profile"
       /\ immediates > 0
       /\ startPromise = "resolved"
  /\ \A i \in Slots : inv[i].patches <= 1

\* A PATCH failed and the next invocation is queued.
C6_Witness == done.outcome = "uploadFailed" /\ immediates = 1

\* C7: at most one POLL, backoff wait, collection or upload is outstanding,
\* and the next invocation is queued or running only when the previous one
\* has completed.
C7_OneOutstanding == Cardinality(Live) + immediates <= 1

\* The upload of a later iteration is outstanding.
C7_Witness == \E i \in Slots : inv[i].pc = "upload" /\ ~inv[i].root

\* C8 as claimed: after every iteration outcome (upload done, upload
\* failed, collection failed, unknown or disabled profile type) a new POLL
\* is eventually issued, and so it is after a collection or an upload began.
C8_NextPollEventually ==
  /\ (done.outcome \in IterationOutcomes)
       ~> (done.outcome = "none" /\ \E i \in Slots : inv[i].pc = "poll")
  /\ (\E i \in Slots : inv[i].pc \in {"sampling", "encoding", "upload"})
       ~> (\E i \in Slots : inv[i].pc = "poll")

\* C8 amended: after every iteration outcome a new POLL is eventually
\* issued unless the process ends first, the queued callback being unref'd;
\* and so it is after a collection or an upload began.
C8_NextPollUnlessExit ==
  /\ (done.outcome \in IterationOutcomes)
       ~> (exited \/ (done.outcome = "none" /\ \E i \in Slots : inv[i].pc = "poll"))
  /\ (\E i \in Slots : inv[i].pc \in {"sampling", "encoding", "upload"})
       ~> (exited \/ \E i \in Slots : inv[i].pc = "poll")

\* The POLL of a later iteration is outstanding.
C8_Witness ==
  \E i \in Slots : inv[i].pc = "poll" /\ ~inv[i].root /\ inv[i].fails = 0

\* C9: once initConfig has passed, start()'s promise stays pending.
C9_StartStaysPending == profiler.constructed => startPromise = "pending"

\* C10: at least minProfilingIntervalMillis elapses between the starts of
\* two consecutive collections.
C10_MinProfilingInterval ==
  \A i \in Slots :
    inv[i].collectGap # NoGap => inv[i].collectGap >= cfg.minProfilingIntervalMillis

\* The collection of slot i is under way: a sampler runs, or its profile is
\* being encoded or uploaded.
InCollect(i) == inv[i].pc \in {"sampling", "encoding", "upload"}
\* The last invocation got a request and completed.
Completed == done.outcome \notin {"none", "pollRejected"}

\* C11: the PATCH of an upload is addressed to the path built from the name
\* of the request the POLL returned, and its body is that request with
\* name, profileType, duration and labels as received and profileBytes
\* added; until then the request is carried as received.
C11_UploadCarriesRequest ==
  \A i \in Slots :
    /\ inv[i].pc \in {"sampling", "encoding"} => inv[i].prof = inv[i].received
    /\ inv[i].pc = "upload" =>
         /\ inv[i].patch.method = "PATCH"
         /\ inv[i].patch.uri = API \o "/" \o inv[i].received.name
         /\ DOMAIN inv[i].patch.body = DOMAIN inv[i].received
         /\ inv[i].patch.body.name = inv[i].received.name
         /\ inv[i].patch.body.profileType = inv[i].received.profileType
         /\ inv[i].patch.body.duration = inv[i].received.duration
         /\ inv[i].patch.body.labels = inv[i].received.labels
         /\ inv[i].received.profileBytes = Undefined
         /\ inv[i].patch.body.profileBytes # Undefined
C11_Witness ==
  \E i \in Slots : /\ inv[i].pc = "upload"
                   /\ inv[i].received.labels = TestLabels
                   /\ inv[i].received.duration = "30s"
                   /\ inv[i].patch.uri = API \o "/projects/p/profiles/a"

\* C12: a WALL request runs the time profiler for 10 000 ms whatever its
\* duration and not the heap profiler; a HEAP request runs the heap
\* profiler, without a wait for a duration, and not the time profiler.
C12_DispatchOnProfileType ==
  /\ \A i \in Slots :
       /\ InCollect(i) /\ inv[i].received.profileType = Wall =>
            inv[i].sampler = "time" /\ inv[i].durationMillis = 10000
       /\ InCollect(i) /\ inv[i].received.profileType = Heap =>
            /\ inv[i].sampler = "heap"
            /\ inv[i].durationMillis = 0
            /\ inv[i].pc # "sampling"
       /\ inv[i].sampler = "time" => inv[i].received.profileType = Wall
       /\ inv[i].sampler = "heap" => inv[i].received.profileType = Heap
  /\ done.sampler = "time" => done.profileType = Wall
  /\ done.sampler = "heap" => done.profileType = Heap
C12_Witness ==
  \E i \in Slots : /\ inv[i].pc = "sampling"
                   /\ inv[i].received.duration = "30s"
                   /\ inv[i].durationMillis = 10000

\* C13: for a request whose profileType is neither WALL nor HEAP, a missing
\* one included, profile() rejects with the unexpected-type error: no
\* sampler runs, no PATCH is issued, the error is logged and the next
\* invocation is queued.
C13_UnknownTypeSkipsCollect ==
  /\ \A i \in Slots : InCollect(i) => inv[i].received.profileType \in {Wall, Heap}
  /\ Completed /\ done.profileType \notin {Wall, Heap} =>
       /\ done.outcome = "unexpectedType"
       /\ done.error = <<"Unexpected profile type ", done.profileType, ".">>
       /\ done.sampler = "none"
       /\ done.collects = 0
       /\ done.patches = 0
       /\ lastLog = "Error collecting profile"
       /\ immediates >= 1
C13_Witness ==
  /\ done.outcome = "unexpectedType"
  /\ done.profileType = Undefined
  /\ immediates = 1

\* C14: a WALL request while time profiling is disabled, or a HEAP request
\* while heap profiling is disabled, is rejected with an error of its own,
\* not the unexpected-type error; the request gets no profileBytes, the
\* error is logged, nothing is uploaded and the next invocation is queued.
C14_DisabledTypeIsDistinctError ==
  /\ \A i \in Slots :
       /\ InCollect(i) /\ inv[i].received.profileType = Wall => ~cfg.disableTime
       /\ InCollect(i) /\ inv[i].received.profileType = Heap => ~cfg.disableHeap
  /\ Completed /\ (\/ done.profileType = Wall /\ cfg.disableTime
                   \/ done.profileType = Heap /\ cfg.disableHeap) =>
       /\ done.error =
            IF done.profileType = Wall
            THEN <<"Cannot collect time profile, time profiler not enabled.">>
            ELSE <<"Cannot collect heap profile, heap profiler not enabled.">>
       /\ done.error # <<"Unexpected profile type ", done.profileType, ".">>
       /\ done.outcome # "unexpectedType"
       /\ done.profileBytes = Undefined
       /\ done.sampler = "none"
       /\ done.collects = 0
       /\ done.patches = 0
       /\ lastLog = "Error collecting profile"
       /\ immediates >= 1
C14_Witness ==
  /\ Completed
  /\ done.profileType = Wall
  /\ cfg.disableTime
  /\ ~cfg.disableHeap
  /\ immediates = 1

\* C15: every POST lists exactly the enabled profile types, WALL before
\* HEAP, the same list in every POLL, and a time (heap) profiler is
\* constructed iff WALL (HEAP) is in the list.
C15_PollListsEnabledTypes ==
  /\ \A i \in Slots : inv[i].pc # "free" =>
       /\ inv[i].post.method = "POST"
       /\ inv[i].post.uri = "/profiles"
       /\ ~cfg.disableTime /\ ~cfg.disableHeap =>
            inv[i].post.body.profileType = <<"WALL", "HEAP">>
       /\ ~cfg.disableTime /\ cfg.disableHeap =>
            inv[i].post.body.profileType = <<"WALL">>
       /\ cfg.disableTime /\ ~cfg.disableHeap =>
            inv[i].post.body.profileType = <<"HEAP">>
       /\ cfg.disableTime /\ cfg.disableHeap =>
            inv[i].post.body.profileType = <<>>
       /\ profiler.timeProfiler <=>
            \E k \in DOMAIN inv[i].post.body.profileType :
               inv[i].post.body.profileType[k] = "WALL"
       /\ profiler.heapProfiler <=>
            \E k \in DOMAIN inv[i].post.body.profileType :
               inv[i].post.body.profileType[k] = "HEAP"
  /\ ~profiler.constructed => \A i \in Slots : inv[i].pc = "free"
C15_Witness ==
  \E i \in Slots : /\ inv[i].pc = "poll"
                   /\ inv[i].posts = 2
                   /\ ~inv[i].root
                   /\ cfg.disableHeap
                   /\ inv[i].post.body.profileType = <<"WALL">>

\* ------------------------------------------------- claims on the tables
\* Two nodes agree on the key of a location, of a function.
SameLocation(a, b) ==
  /\ a.scriptId = b.scriptId
  /\ a.lineNumber = b.lineNumber
  /\ a.columnNumber = b.columnNumber
  /\ a.name = b.name
SameFunction(a, b) == a.scriptId = b.scriptId /\ a.name = b.name
\* The string indices a profile uses.
StringIndices ==
  {ser.periodType.type, ser.periodType.unit, ser.dropFramesX, ser.keepFramesX}
  \cup {ser.sampleType[k].type : k \in DOMAIN ser.sampleType}
  \cup {ser.sampleType[k].unit : k \in DOMAIN ser.sampleType}
  \cup {ser.t.functions[k].name : k \in DOMAIN ser.t.functions}
  \cup {ser.t.functions[k].systemName : k \in DOMAIN ser.t.functions}
  \cup {ser.t.functions[k].filename : k \in DOMAIN ser.t.functions}
\* Strings looked up a second time: interned ones and a new one.
StringPool == {"", "f", "a.js", "samples", "g"}

\* C16: in every profile, under construction or built, by the TypeScript
\* serializers or the native Profile, for every tree, the string table
\* starts with the empty string and holds it nowhere else.
C16_EmptyStringFirst ==
  ser.impl # "none" =>
    /\ Len(ser.t.strings) >= 1
    /\ ser.t.strings[1] = ""
    /\ \A k \in 2..Len(ser.t.strings) : ser.t.strings[k] # ""
C16_Witness ==
  /\ ser.impl = "heap"
  /\ ser.built
  /\ Len(ser.got) >= 2
  /\ \E k \in DOMAIN ser.got : ser.got[k].node.name = ""

\* C17: every functionId of a location's line is in 1..len(functions),
\* every locationId of a sample is in 1..len(locations), and every string
\* index in use is in 0..len(stringTable)-1.
C17_IdsInRange ==
  ser.impl # "none" =>
    /\ \A k \in DOMAIN ser.t.locations : \A j \in DOMAIN ser.t.locations[k].line :
         ser.t.locations[k].line[j].functionId \in 1..Len(ser.t.functions)
    /\ \A k \in DOMAIN ser.sample : \A j \in DOMAIN ser.sample[k].locationId :
         ser.sample[k].locationId[j] \in 1..Len(ser.t.locations)
    /\ \A x \in StringIndices : x \in 0..(Len(ser.t.strings) - 1)
C17_Witness ==
  /\ ser.impl = "native"
  /\ Len(ser.sampleType) >= 1
  /\ \E k \in DOMAIN ser.sample : Len(ser.sample[k].locationId) >= 2
  /\ Len(ser.t.functions) >= 1

\* C18: the function at position i of the function table has id i + 1, the
\* location at position i of the location table has id i + 1, and no id
\* is 0.
C18_IdIsPositionPlusOne ==
  ser.impl # "none" =>
    /\ \A k \in DOMAIN ser.t.functions :
         ser.t.functions[k].id = (k - 1) + 1 /\ ser.t.functions[k].id # 0
    /\ \A k \in DOMAIN ser.t.locations :
         ser.t.locations[k].id = (k - 1) + 1 /\ ser.t.locations[k].id # 0
C18_Witness ==
  /\ ser.impl = "time"
  /\ Len(ser.t.locations) >= 3
  /\ Len(ser.t.functions) >= 2

\* C19: two nodes get the same location id iff they agree on scriptId,
\* lineNumber, columnNumber and name, and the same function id iff they
\* agree on scriptId and name; the tables hold one entry per distinct key
\* of the nodes visited, which are all the non-root nodes once the profile
\* is built.
C19_InterningIsKeyed ==
  ser.impl # "none" =>
    /\ \A a, b \in DOMAIN ser.got :
         /\ ser.got[a].locationId = ser.got[b].locationId
              <=> SameLocation(ser.got[a].node, ser.got[b].node)
         /\ ser.got[a].functionId = ser.got[b].functionId
              <=> SameFunction(ser.got[a].node, ser.got[b].node)
    /\ Len(ser.t.locations) =
         Cardinality({<<g.scriptId, g.lineNumber, g.columnNumber, g.name>> :
                        g \in {ser.got[k].node : k \in DOMAIN ser.got}})
    /\ Len(ser.t.functions) =
         Cardinality({<<g.scriptId, g.name>> :
                        g \in {ser.got[k].node : k \in DOMAIN ser.got}})
    /\ ser.built => Len(ser.got) = Len(ser.tree)
C19_Witness ==
  /\ ser.impl = "time"
  /\ ser.built
  /\ Len(ser.tree) = 2
  /\ ser.tree[1] = ser.tree[2]
  /\ ser.tree[1].parent = 0
  /\ Len(ser.t.locations) = 1
  /\ Len(ser.t.functions) = 1
  /\ Len(ser.sample) = 2
  /\ ser.sample[1].locationId = <<1>>
  /\ ser.sample[2].locationId = <<1>>

\* C20: interning a node's function or location, or a string, a second time
\* returns the id of the first time and leaves the three tables as they
\* were after the first time.
C20_InterningIdempotent ==
  /\ ser.impl \in {"time", "heap"} =>
       /\ \A s \in StringPool :
            LET r1 == getIndexOrAdd(ser.t, s)
                r2 == getIndexOrAdd(r1.t, s)
            IN r2.loc = r1.loc /\ r2.t = r1.t
       /\ \A n \in NodeKinds :
            LET r1 == getFunction(ser.t, n)
                r2 == getFunction(r1.t, n)
            IN r2.f.id = r1.f.id /\ r2.t = r1.t
       /\ \A n \in NodeKinds :
            LET r1 == getLocation(ser.t, n)
                r2 == getLocation(r1.t, n)
            IN r2.location.id = r1.location.id /\ r2.t = r1.t
  /\ ser.impl = "native" =>
       /\ \A s \in StringPool :
            LET r1 == stringID(ser.t, s)
                r2 == stringID(r1.t, s)
            IN r2.id = r1.id /\ r2.t = r1.t
       /\ \A n \in NodeKinds :
            LET r1 == functionID(ser.t, n)
                r2 == functionID(r1.t, n)
            IN r2.id = r1.id /\ r2.t = r1.t
       /\ \A n \in NodeKinds :
            LET r1 == locationID(ser.t, n)
                r2 == locationID(r1.t, n)
            IN r2.id = r1.id /\ r2.t = r1.t
C20_Witness ==
  /\ ser.impl = "native"
  /\ Len(ser.got) >= 3
  /\ ser.got[1].node = ser.got[3].node
  /\ ser.got[1].node # ser.got[2].node
  /\ ser.got[1].locationId = ser.got[3].locationId
  /\ Len(ser.t.locations) = 2

\* Node k of the tree of ser and its ancestors, from k up to the child of
\* the root: the path a sample emitted at k stands for.
RECURSIVE PathToRoot(_)
PathToRoot(k) ==
  IF k = 0 THEN <<>> ELSE <<k>> \o PathToRoot(ser.tree[k].parent)
\* The location id node k of the tree got when it was visited.
LocationOfNode(k) ==
  LET g == CHOOSE j \in DOMAIN ser.got : ser.got[j].index = k IN ser.got[g].locationId

\* C21: a sample emitted at node N of depth d carries d location ids: the
\* location of N, then the locations of N's ancestors in order, ending at
\* the child of the root; the root and the frames of siblings or of other
\* subtrees are not in it. The native addSample puts the node's location
\* in front of the stack it is given.
C21_StackIsPathToRoot ==
  /\ ser.impl \in {"time", "heap"} =>
       /\ \A j \in DOMAIN ser.got :
            LET path == PathToRoot(ser.got[j].index) IN
            /\ ser.got[j].index \in 1..Len(ser.tree)
            /\ \A x \in ser.got[j].from..ser.got[j].to :
                 /\ Len(ser.sample[x].locationId) = Len(path)
                 /\ \A i \in 1..Len(path) :
                      ser.sample[x].locationId[i] = LocationOfNode(path[i])
       /\ \A x \in DOMAIN ser.sample :
            \E j \in DOMAIN ser.got : x \in ser.got[j].from..ser.got[j].to
  /\ ser.impl = "native" =>
       \A j \in DOMAIN ser.got :
         /\ ser.got[j].stack[1] = ser.got[j].locationId
         /\ \A x \in ser.got[j].from..ser.got[j].to :
              ser.sample[x].locationId = ser.got[j].stack
C21_Witness ==
  /\ ser.impl = "heap"
  /\ ser.built
  /\ Len(ser.tree) = 3
  /\ ser.tree[2].parent = 1
  /\ ser.tree[3].parent = 0
  /\ ser.tree[1].node # ser.tree[2].node
  /\ ser.tree[3].node # ser.tree[1].node
  /\ \E x \in DOMAIN ser.sample : Len(ser.sample[x].locationId) = 2

\* The sum of value[i] over samples (value[i] is the code's value[i - 1]).
RECURSIVE SumValue(_, _)
SumValue(samples, i) ==
  IF samples = <<>> THEN 0
  ELSE Head(samples).value[i] + SumValue(Tail(samples), i)
RECURSIVE SumBytes(_)
SumBytes(allocations) ==
  IF allocations = <<>> THEN 0
  ELSE Head(allocations).count * Head(allocations).sizeBytes
       + SumBytes(Tail(allocations))
\* The hits, the bytes allocated, of the first n non-root nodes of tree.
RECURSIVE HitsBelowRoot(_, _)
HitsBelowRoot(tree, n) ==
  IF n = 0 THEN 0 ELSE tree[n].node.hitCount + HitsBelowRoot(tree, n - 1)
RECURSIVE BytesBelowRoot(_, _)
BytesBelowRoot(tree, n) ==
  IF n = 0 THEN 0
  ELSE SumBytes(tree[n].node.allocations) + BytesBelowRoot(tree, n - 1)

\* C22 as claimed: the sum of value[0] over the samples of a time profile
\* is the sum of hitCount over all nodes of the tree, the root included.
C22_WallValueLawAllNodes ==
  ser.impl = "time" /\ ser.built =>
    SumValue(ser.sample, 1) = ser.root.hitCount + HitsBelowRoot(ser.tree, Len(ser.tree))
\* C22 amended: the sum of value[0] over the samples of a time profile is
\* the sum of hitCount over the non-root nodes of the tree; the hits of
\* the root are in no sample.
C22_WallValueLawBelowRoot ==
  ser.impl = "time" /\ ser.built =>
    SumValue(ser.sample, 1) = HitsBelowRoot(ser.tree, Len(ser.tree))
C22_Witness ==
  /\ ser.impl = "time"
  /\ ser.built
  /\ ser.root.hitCount > 0
  /\ Len(ser.tree) = 2
  /\ ser.tree[1].node.hitCount = 0
  /\ ser.tree[2].node.hitCount = 2
  /\ SumValue(ser.sample, 1) = 2

\* C23 as claimed: the sum of value[1] over the samples of a heap profile
\* is the sum of count * sizeBytes over the allocations of all nodes of the
\* tree, the root included.
C23_HeapValueLawAllNodes ==
  ser.impl = "heap" /\ ser.built =>
    SumValue(ser.sample, 2) = SumBytes(ser.root.allocations)
                              + BytesBelowRoot(ser.tree, Len(ser.tree))
\* C23 amended: the sum of value[1] over the samples of a heap profile is
\* the sum of count * sizeBytes over the allocations of the non-root nodes;
\* the allocations of the root are in no sample.
C23_HeapValueLawBelowRoot ==
  ser.impl = "heap" /\ ser.built =>
    SumValue(ser.sample, 2) = BytesBelowRoot(ser.tree, Len(ser.tree))
C23_Witness ==
  /\ ser.impl = "heap"
  /\ ser.built
  /\ ser.root.allocations # <<>>
  /\ Len(ser.tree) = 2
  /\ Len(ser.tree[1].node.allocations) = 2
  /\ ser.tree[2].node.allocations = <<>>
  /\ SumValue(ser.sample, 2) = 14

\* ---------------------------------------------------------------- initConfig
\* The options the layers may supply, and the environment variable of each.
Options == {"projectId", "service", "version", "logLevel", "zone", "instance"}
EnvName ==
  [projectId |-> "GCLOUD_PROJECT", service |-> "GAE_SERVICE",
   version |-> "GAE_VERSION", logLevel |-> "GCLOUD_PROFILER_LOGLEVEL"]
\* The log levels the values of GCLOUD_PROFILER_LOGLEVEL denote.
LevelOf == ("3" :> Level(3)) @@ ("\r -3" :> Level(0 - 3))

ExplicitSets(f) ==
  IF f = "logLevel" THEN ic.config.logLevel # NoLevel ELSE ic.config[f] # Undefined
EnvSets(f) ==
  /\ f \in DOMAIN EnvName
  /\ ic.env[EnvName[f]] # Undefined
  /\ f = "logLevel" => ic.env[EnvName[f]] \in DOMAIN LevelOf
EnvValue(f) ==
  IF f = "logLevel" THEN LevelOf[ic.env[EnvName[f]]] ELSE ic.env[EnvName[f]]
\* The configuration file, when one is named, loads.
ConfigFileLoads ==
  ic.env.GCLOUD_PROFILER_CONFIG \in {Undefined} \cup DOMAIN ConfigFiles
FileSets(f) ==
  /\ ic.env.GCLOUD_PROFILER_CONFIG \in DOMAIN ConfigFiles
  /\ f \in DOMAIN ConfigFiles[ic.env.GCLOUD_PROFILER_CONFIG]
\* The value of option f by precedence: explicit config, environment,
\* config file, defaults.
LayerValue(f) ==
  IF ExplicitSets(f) THEN ic.config[f]
  ELSE IF EnvSets(f) THEN EnvValue(f)
  ELSE IF FileSets(f) THEN ConfigFiles[ic.env.GCLOUD_PROFILER_CONFIG][f]
  ELSE IF f = "logLevel" THEN Level(1)
  ELSE Undefined
\* Some layer supplies option f.
Supplied(f) == ExplicitSets(f) \/ EnvSets(f) \/ FileSets(f)
InitConfigSettled == ic.pc \in {"settled", "started"}
\* The metadata server was asked and answered all three requests.
MetadataReached ==
  ic.consulted /\ ic.metadata.instanceOk /\ ic.metadata.zoneOk /\ ic.metadata.projectOk
\* The metadata server was asked and a request failed.
MetadataFailed == ic.consulted /\ ~MetadataReached
\* The last of the segments the "/" tokens separate.
LastSegment(tokens) ==
  IF tokens = <<>> \/ tokens[Len(tokens)] = "/" THEN "" ELSE tokens[Len(tokens)]

\* C25: the configuration initConfig resolves with has, for every option,
\* the value of the highest layer that sets it (defaults < config file <
\* environment variables < explicit config); zone, instance and projectId
\* that no layer sets to a non-empty value are left to metadata discovery.
C25_LayerPrecedence ==
  ic.outcome = "resolved" =>
    \A f \in Options :
      \/ f \in {"zone", "instance", "projectId"} /\ Falsy(LayerValue(f))
      \/ ic.merged[f] = LayerValue(f)

\* C26 as claimed: when no layer supplies serviceContext.service, initConfig
\* rejects with 'Service must be specified in the configuration.', and
\* start() constructs no Profiler and issues no POLL.
C26_NoServiceRejects ==
  InitConfigSettled /\ ~Supplied("service") =>
    /\ ic.outcome = "rejected"
    /\ ic.error = "Service must be specified in the configuration."
    /\ ~profiler.constructed
    /\ \A i \in Slots : inv[i].posts = 0
    /\ ic.pc = "started" => startPromise = "rejected"
\* C26 amended: when no layer supplies serviceContext.service, initConfig
\* rejects, and start() constructs no Profiler and issues no POLL; the message
\* is 'Service must be specified in the configuration.' when the file named
\* by GCLOUD_PROFILER_CONFIG, if one is named, loads, and the Error of
\* require when it does not.
C26_NoServiceRejectsLoaderFirst ==
  InitConfigSettled /\ ~Supplied("service") =>
    /\ ic.outcome = "rejected"
    /\ ic.error = IF ConfigFileLoads THEN ServiceError ELSE RequireError
    /\ ~profiler.constructed
    /\ \A i \in Slots : inv[i].posts = 0
    /\ ic.pc = "started" => startPromise = "rejected"
C26_Witness ==
  /\ ic.pc = "started"
  /\ ~Supplied("service")
  /\ ic.env.GCLOUD_PROFILER_CONFIG = "partial.json"
  /\ ic.error = ServiceError
  /\ Supplied("projectId")
  /\ MetadataReached
  /\ startPromise = "rejected"
  /\ ~profiler.constructed

\* C27: when no layer supplies projectId and metadata does not yield one
\* (the server is not asked, or the request fails), initConfig rejects and
\* no Profiler is constructed.
C27_NoProjectIdRejects ==
  InitConfigSettled /\ ~Supplied("projectId")
    /\ (~ic.consulted \/ ~ic.metadata.projectOk) =>
    /\ ic.outcome = "rejected"
    /\ ~profiler.constructed
    /\ ic.pc = "started" => startPromise = "rejected"
C27_Witness ==
  /\ ic.pc = "started"
  /\ ~Supplied("projectId")
  /\ Supplied("service")
  /\ ic.consulted
  /\ ~ic.metadata.projectOk
  /\ ic.error = ProjectIdError
  /\ ~profiler.constructed

\* The case of C28: service, instance and zone are given, no layer has a
\* projectId, the configuration file, if one is named, loads, and the
\* metadata server does not answer.
C28_Case ==
  /\ InitConfigSettled
  /\ ConfigFileLoads
  /\ ic.config.service # Undefined
  /\ ic.config.instance # Undefined
  /\ ic.config.zone # Undefined
  /\ ~Supplied("projectId")
  /\ ic.consulted =>
       ~ic.metadata.instanceOk /\ ~ic.metadata.zoneOk /\ ~ic.metadata.projectOk
\* C28 as claimed: in that case initConfig resolves with a configuration
\* that has no projectId and whose given fields are unchanged.
C28_ResolvesWithoutProjectId ==
  C28_Case =>
    /\ ic.outcome = "resolved"
    /\ ic.merged.projectId = Undefined
    /\ ic.merged.service = ic.config.service
    /\ ic.merged.instance = ic.config.instance
    /\ ic.merged.zone = ic.config.zone
C30_OneActiveSession ==
  ta.pc \notin {"unloaded", "exited"} =>
    /\ Cardinality(ta.sessions) <= 1
    /\ ta.isActive <=> ta.sessions # {}
    /\ ta.handler = "start" => ~ta.wasActive /\ ~ta.streamOpen

\* C31: the handlers of 'exit' and 'uncaughtException' call the sampler's
\* stop if and only if a CPU sampling session is active when they run.
C31_HandlersStopIffActive ==
  ta.handler \in {"exit", "uncaughtException"} => (ta.calledStop <=> ta.wasActive)

\* C40: every started session is the target of at most one stopProfiling
\* call, whatever the order of the stop timer and the handlers.
C40_StoppedAtMostOnce ==
  \A r \in 1..MaxRuns : ta.stops[r] <= 1

\* ------------------------------------------------------------ serializer order
\* The nodes below the nodes kids of tree, depth first, a node before its
\* children and the children in the order of node.children.
RECURSIVE PreOrder(_, _)
PreOrder(tree, kids) ==
  IF kids = <<>> THEN <<>>
  ELSE <<Head(kids)>> \o PreOrder(tree, ChildrenOf(tree, Head(kids)))
       \o PreOrder(tree, Tail(kids))
\* The nodes of the tree in the order serialize visited them.
Visited == [k \in 1..Len(ser.got) |-> ser.got[k].index]

\* C32: serialize visits the nodes depth first, a node before its children
\* and siblings in the order of node.children, so the first child of the
\* root gets location id 1.
C32_VisitsInSourceOrder ==
  ser.impl \in {"time", "heap"} /\ ser.built =>
    /\ Visited = PreOrder(ser.tree, ChildrenOf(ser.tree, 0))
    /\ ser.tree # <<>> => LocationOfNode(1) = 1

\* ------------------------------------------------------------ samples per node
\* Every sample belongs to the visit of one node, and once the profile is
\* built every non-root node has been visited once.
SamplesOfVisits ==
  /\ \A x \in DOMAIN ser.sample :
       \E j \in DOMAIN ser.got : x \in ser.got[j].from..ser.got[j].to
  /\ ser.built =>
       \A k \in 1..Len(ser.tree) :
         Cardinality({j \in DOMAIN ser.got : ser.got[j].index = k}) = 1

\* C33: serializeTimeProfile emits one sample, [hitCount, hitCount *
\* intervalMicros], for each non-root node with hitCount > 0 and none for a
\* node with hitCount = 0 or for the root; a node with hitCount = 0 still
\* has a location, which is in the stacks of its children.
C33_OneSamplePerHitNode ==
  ser.impl = "time" =>
    /\ SamplesOfVisits
    /\ \A j \in DOMAIN ser.got :
         LET g == ser.got[j]
             h == g.node.hitCount
         IN /\ IF h > 0
                 THEN /\ g.to = g.from
                      /\ ser.sample[g.from].locationId = g.stack
                      /\ ser.sample[g.from].value = <<h, h * IntervalMicros>>
               ELSE g.to = g.from - 1
            /\ g.locationId \in 1..Len(ser.t.locations)
            /\ \A d \in DOMAIN ser.got :
                 ser.tree[ser.got[d].index].parent = g.index =>
                   ser.got[d].stack = <<ser.got[d].locationId>> \o g.stack
C33_Witness ==
  /\ ser.impl = "time"
  /\ ser.built
  /\ ser.root.hitCount > 0
  /\ Len(ser.tree) = 2
  /\ ser.tree[1].node.hitCount = 0
  /\ ser.tree[2].parent = 1
  /\ ser.tree[2].node.hitCount = 2
  /\ Len(ser.sample) = 1
  /\ Len(ser.sample[1].locationId) = 2
  /\ ser.sample[1].value = <<2, 2000>>

\* C34: serializeHeapProfile emits, for each non-root node, one sample per
\* allocation record, in the order of the records, with value [count,
\* sizeBytes * count] and the stack of the node; a node without allocation
\* records, and the root, emit none.
C34_OneSamplePerAllocation ==
  ser.impl = "heap" =>
    /\ SamplesOfVisits
    /\ \A j \in DOMAIN ser.got :
         LET g == ser.got[j]
             allocations == g.node.allocations
         IN /\ g.to - g.from + 1 = Len(allocations)
            /\ \A i \in 1..Len(allocations) :
                 /\ ser.sample[g.from + i - 1].locationId = g.stack
                 /\ ser.sample[g.from + i - 1].value =
                      <<allocations[i].count,
                        allocations[i].sizeBytes * allocations[i].count>>
C34_Witness ==
  /\ ser.impl = "heap"
  /\ ser.built
  /\ ser.root.allocations # <<>>
  /\ Len(ser.tree) = 2
  /\ ser.tree[1].node.allocations = <<>>
  /\ ser.tree[2].parent = 1
  /\ Len(ser.tree[2].node.allocations) = 2
  /\ Len(ser.sample) = 2
  /\ ser.sample[1].value = <<1, 8>>
  /\ ser.sample[2].value = <<3, 6>>
  /\ ser.sample[1].locationId = ser.sample[2].locationId

\* ------------------------------------------------------------ function entries
\* The startLine of a function message; a message in which it is not set
\* has the default, 0.
StartLineOf(f) == IF "startLine" \in DOMAIN f THEN f.startLine ELSE 0
\* The first visit that referred to function id.
FirstVisitOf(id) ==
  CHOOSE j \in DOMAIN ser.got :
    /\ ser.got[j].functionId = id
    /\ \A i \in 1..(j - 1) : ser.got[i].functionId # id

\* C35: every entry of the function table has nameIdx = systemNameIdx = the
\* index of the name, filenameIdx = the index of the filename and startLine
\* = the lineNumber of the node that first interned it, in the profiles of
\* serializeTimeProfile / serializeHeapProfile and of the native Profile.
C35_FunctionEntryFields ==
  \A id \in DOMAIN ser.t.functions :
    LET f == ser.t.functions[id]
        node == ser.got[FirstVisitOf(id)].node
    IN /\ f.id = id
       /\ ser.t.strings[f.name + 1] = node.name
       /\ f.systemName = f.name
       /\ ser.t.strings[f.filename + 1] = node.scriptName
       /\ StartLineOf(f) = node.lineNumber
\* The same for the native Profile alone.
C35_NativeFunctionEntryFields == ser.impl = "native" => C35_FunctionEntryFields

\* ------------------------------------------------------------ string table
\* seq without the entries that occurred before in it or in acc, after acc.
RECURSIVE FirstOccurrences(_, _)
FirstOccurrences(seq, acc) ==
  IF seq = <<>> THEN acc
  ELSE IF \E i \in DOMAIN acc : acc[i] = Head(seq)
    THEN FirstOccurrences(Tail(seq), acc)
  ELSE FirstOccurrences(Tail(seq), Append(acc, Head(seq)))
\* The name and the filename of the functions with ids from id on, in the
\* order of the ids.
RECURSIVE FunctionStrings(_)
FunctionStrings(id) ==
  IF id > Len(ser.t.functions) THEN <<>>
  ELSE <<ser.got[FirstVisitOf(id)].node.name,
         ser.got[FirstVisitOf(id)].node.scriptName>> \o FunctionStrings(id + 1)

\* C36: the string table of a WALL profile is "", "samples", "count",
\* "time", "microseconds", then the name and the filename of each function
\* in the order the functions were interned, a string being entered where
\* it first occurs; periodType has the indices of the second sampleType.
C36_WallStringTable ==
  ser.impl = "time" =>
    /\ ser.t.strings =
         FirstOccurrences(FunctionStrings(1),
                          <<"", "samples", "count", "time", "microseconds">>)
    /\ ser.periodType = ser.sampleType[2]
    /\ ser.sampleType = <<[type |-> 1, unit |-> 2], [type |-> 3, unit |-> 4]>>
C36_Witness ==
  /\ ser.impl = "time"
  /\ ser.built
  /\ Len(ser.t.functions) = 2
  /\ ser.t.strings =
       <<"", "samples", "count", "time", "microseconds", "f", "a.js", "b.js">>

\* ------------------------------------------------------------ profile times
\* C37: for a sampler result with startTime and endTime in nanoseconds,
\* timeNanos is startTime, durationNanos is endTime - startTime and period
\* is intervalMicros.
C37_TimesInNanoseconds ==
  ser.impl = "time" =>
    /\ ser.timeNanos = ser.prof.startTime
    /\ ser.durationNanos = ser.prof.endTime - ser.prof.startTime
    /\ ser.period = IntervalMicros

\* ------------------------------------------------------------ wire encoder
\* A reference decoder. The varint that starts at position pos of bytes
\* and the position after it.
RECURSIVE DecodeVarint(_, _)
DecodeVarint(bytes, pos) ==
  IF bytes[pos] < 128 THEN [value |-> bytes[pos], next |-> pos + 1]
  ELSE LET rest == DecodeVarint(bytes, pos + 1)
       IN [value |-> (bytes[pos] - 128) + 128 * rest.value, next |-> rest.next]
\* The varint fields of bytes from position pos on, as <<number, value>>.
RECURSIVE DecodeFields(_, _)
DecodeFields(bytes, pos) ==
  IF pos > Len(bytes) THEN <<>>
  ELSE LET tag == DecodeVarint(bytes, pos)
           v == DecodeVarint(bytes, tag.next)
       IN <<<<tag.value \div 8, v.value>>>> \o DecodeFields(bytes, v.next)
\* The value of field number in fields, 0 when the field is absent.
FieldOr0(fields, number) ==
  IF \E i \in DOMAIN fields : fields[i][1] = number
    THEN fields[CHOOSE i \in DOMAIN fields : fields[i][1] = number][2]
  ELSE 0
DecodeFunction(bytes) ==
  LET fields == DecodeFields(bytes, 1)
  IN [id |-> FieldOr0(fields, 1), nameX |-> FieldOr0(fields, 2),
      systemNameX |-> FieldOr0(fields, 3), filenameX |-> FieldOr0(fields, 4),
      startLine |-> FieldOr0(fields, 5)]
\* The numbers of the fields in bytes.
FieldNumbers(bytes) ==
  {DecodeFields(bytes, 1)[i][1] : i \in DOMAIN DecodeFields(bytes, 1)}

\* C38: ProfileFunction::encode emits each of the fields 1-5 if and only if
\* its value is not zero (no bytes for field 5 when startLine is 0), once,
\* and a decoder that reads absent fields as zero gets the same function.
C38_ZeroSuppressedRoundTrip ==
  enc.pc = "encoded" =>
    /\ FieldNumbers(enc.buffer) =
         {n \in 1..5 : <<enc.f.id, enc.f.nameX, enc.f.systemNameX,
                         enc.f.filenameX, enc.f.startLine>>[n] # 0}
    /\ Len(DecodeFields(enc.buffer, 1)) = Cardinality(FieldNumbers(enc.buffer))
    /\ DecodeFunction(enc.buffer) = enc.f
C38_Witness ==
  /\ enc.pc = "encoded"
  /\ enc.f = [id |-> 300, nameX |-> 1, systemNameX |-> 1, filenameX |-> 0,
              startLine |-> 0]
  /\ enc.buffer = <<8, 172, 2, 16, 1, 24, 1>>

\* --------------------------------------------------------------- initConfig
\* The metadata server answers all three requests.
ServerReachable ==
  ic.server.instanceOk /\ ic.server.zoneOk /\ ic.server.projectOk
\* C39: when no layer sets projectId (the configuration file, if one is
\* named, loads) and the metadata server is reachable,
\* initConfig takes projectId from the metadata server, whether or not zone
\* and instance were configured; it rejects for a missing projectId only
\* when the metadata server cannot supply one.
C39_ProjectIdFromMetadata ==
  InitConfigSettled /\ ConfigFileLoads /\ ~Supplied("projectId") =>
    /\ ServerReachable => ic.merged.projectId = ic.server.projectId
    /\ ic.error = ProjectIdError => ~ServerReachable

====
